---- MODULE Spec2Model ----
(***************************************************************************)
(* kube-perftest operator: the benchmark reconciler (create, status-changed *)
(* and delete handlers), the priority-class allocator and the job / pod     *)
(* event correlator of python/perftest/operator.py, over an API server that *)
(* keeps one object per benchmark with a resourceVersion.                   *)
(*                                                                          *)
(* Every handler is cut at its awaits: one action per cluster API call,     *)
(* together with the local code that runs up to the next await.             *)
(***************************************************************************)
EXTENDS Integers, Sequences, FiniteSets, TLC

\* ------------------------------------------------------------------ bounds
NumBenchmarks == 3
NumConcurrent == 2
NumChildren == 1
MaxCreates == 3
MaxRestarts == 1
MaxJobEvents == 4
MaxRepetitions == 3
MaxEndpointsEvents == 2
MaxFioRetries == 1

\* ------------------------------------------------------- program constants
initial_priority == -1
ConflictDelay == 1
IncompleteDelay == 1
JobChild == 1

Benchmarks == 1..NumBenchmarks

\* The benchmarks whose handlers and events interleave in SpecPrio.
Concurrent == 1..NumConcurrent

\* spec.streams of the benchmarks created.
Streams == {1, 2}

TerminalPhases == {"Aborted", "Completed", "Terminated", "Failed"}

\* BenchmarkStatus (with the IPerfStatus extension); 0 stands for None.
DefaultStatus ==
    [ phase |-> "Unknown", priorityClassName |-> 0, managedResources |-> <<>>,
      startedAt |-> 0, finishedAt |-> 0,
      clientPod |-> FALSE, clientLog |-> 0, result |-> 0 ]

\* ---------------------------------------------------------- iperf pod logs
\* A log is a sequence of lines; a line is junk, the "[ ID]" header, or a
\* result row "[ <id>] ... <transfer> KBytes <bandwidth> Kbits/sec".
Junk == [kind |-> "junk", id |-> "", transfer |-> 0, bandwidth |-> 0]
Hdr == [kind |-> "hdr", id |-> "", transfer |-> 0, bandwidth |-> 0]
Row(i, t, bw) == [kind |-> "row", id |-> i, transfer |-> t, bandwidth |-> bw]

\* The logs a client pod may print, by index (status.clientLog holds the index).
Logs ==
    << <<Junk, Hdr, Row("3", 384, 1024)>>,
       <<Hdr, Row("3", 100, 800), Row("4", 100, 800), Row("SUM", 200, 1600)>>,
       <<Hdr, Row("3", 100, 800), Row("4", 100, 800), Row("5", 100, 800)>> >>

RECURSIVE DropToHeader(_)
DropToHeader(lines) ==
    IF lines = <<>> THEN <<>>
    ELSE IF Head(lines).kind = "hdr" THEN lines
    ELSE DropToHeader(Tail(lines))

\* The ids of the rows after the header: the keys of stream_results.
RowIds(lines) == {lines[i].id : i \in {j \in 1..Len(lines) : lines[j].kind = "row"}}

\* IPerf.summarise: "incomplete" (PodResultsIncompleteError), "format"
\* (PodLogFormatError), "error" (next() on an exhausted iterator) or "ok".
Summarise(st, streams) ==
    IF st.clientLog = 0 THEN "incomplete"
    ELSE LET lines == DropToHeader(Logs[st.clientLog])
         IN IF lines = <<>> THEN "error"
            ELSE LET ids == RowIds(Tail(lines))
                     hasSum == "SUM" \in ids
                     stream_results == ids \ {"SUM"}
                 IN IF Cardinality(stream_results) # streams \/ (streams > 1 /\ ~hasSum)
                    THEN "format"
                    ELSE "ok"

VARIABLES
    obj,        \* API server: per benchmark [state, rv, status, streams]
    pcs,        \* the priority classes: records [name, owner, value]
    children,   \* the managed child resources present: <<benchmark, index>>
    nextName,   \* generateName counter of the API server
    lock,       \* PRIORITY_LOCK: 0 (free) or the benchmark whose handler holds it
    handled,    \* kopf last-handled-configuration: the status.phase last handled
    h,          \* per benchmark: the running create / status-changed / delete handler
    jobH,       \* per benchmark: the running job event handler
    podH,       \* per benchmark: the running pod event handler
    job,        \* the Volcano job of each benchmark
    pod,        \* the client pod of each benchmark
    now,        \* per benchmark: the clock read by datetime.now()
    creates,    \* how many benchmarks have been created
    out,        \* per benchmark: how its last finished handler ended
    hist        \* per benchmark: history kept for the properties

\* The benchmark set, the children its create handler has applied, and its handlers.
VARIABLES
    bset,       \* API server: the benchmark set [state, rv, spec, status]
    kids,       \* the benchmarks applied for the set, in order: [name, spec]
    seth,       \* the running handler of the set (create or completed), or idle
    sethandled, \* status.completed as last handled for the set ("none": not created)
    reg         \* per benchmark: the copy of the set fetched by its status handler

svars == <<bset, kids, seth, sethandled, reg>>

\* The discovery configmap of a benchmark, its pods and the handlers of the
\* discovery path; the fio benchmark of the fio create handler.
VARIABLES
    cm,         \* API server: the discovery configmap [state, rv, allHosts, hosts, dirty]
    pods,       \* API server: per pod name [state, annotated]
    epH,        \* the running endpoints event handler
    cmH,        \* the running discovery configmap event handler
    fio,        \* the fio benchmark, its resources and its create handler
    replay,     \* the event stream of a run, and the replay of it from a saved status
    calc        \* a call of a function of the program: [fn, arg, out]

dvars == <<cm, pods, epH, cmH, fio, replay, calc>>

vars == <<obj, pcs, children, nextName, lock, handled, h, jobH, podH, job, pod,
          now, creates, out, hist, bset, kids, seth, sethandled, reg,
          cm, pods, epH, cmH, fio, replay, calc>>

\* --------------------------------------------------- BenchmarkSetPermutations
\* A dict is a function from its keys; a dict whose order matters (product) is
\* the sequence of its items <<key, values>>.  None is the unset Optional[int].
None == -1
EmptyDict == <<>>
Range(q) == {q[i] : i \in 1..Len(q)}

RECURSIVE MathProd(_)
MathProd(ns) == IF ns = <<>> THEN 1 ELSE Head(ns) * MathProd(Tail(ns))

Max(a, b) == IF a >= b THEN a ELSE b

\* BenchmarkSetPermutations.get_count
get_count(perms) ==
    LET product_count ==
            IF perms.product # <<>>
            THEN MathProd([i \in 1..Len(perms.product) |-> Len(perms.product[i][2])])
            ELSE 0
    IN Max(product_count + Len(perms.explicit), 1)

\* itertools.product of a sequence of sequences: the last one advances fastest;
\* of no sequence at all, the one empty tuple.
RECURSIVE ItertoolsProduct(_)
ItertoolsProduct(ls) ==
    IF ls = <<>> THEN << <<>> >>
    ELSE LET first == Head(ls)
             rest == ItertoolsProduct(Tail(ls))
         IN [i \in 1..(Len(first) * Len(rest)) |->
               <<first[((i - 1) \div Len(rest)) + 1]>> \o rest[((i - 1) % Len(rest)) + 1]]

\* dict(items) of a tuple of (key, value) pairs; a later pair wins.
Dict(items) ==
    [k \in {t[1] : t \in Range(items)} |->
        items[CHOOSE i \in 1..Len(items) :
                /\ items[i][1] = k
                /\ \A j \in 1..Len(items) : items[j][1] = k => j <= i][2]]

\* BenchmarkSetPermutations.get_permutations, as the sequence it yields.
get_permutations(perms) ==
    IF perms.product # <<>> \/ perms.explicit # <<>>
    THEN LET items == [i \in 1..Len(perms.product) |->
                         [j \in 1..Len(perms.product[i][2]) |->
                            <<perms.product[i][1], perms.product[i][2][j]>>]]
             tuples == ItertoolsProduct(items)
         IN [i \in 1..Len(tuples) |-> Dict(tuples[i])] \o perms.explicit
    ELSE <<EmptyDict>>

\* utils.mergeconcat of two dicts of scalars: the override wins.
mergeconcat(defaults, overrides) ==
    [k \in DOMAIN defaults \cup DOMAIN overrides |->
        IF k \in DOMAIN overrides THEN overrides[k] ELSE defaults[k]]

\* spec.template.spec of the sets created, and the permutations they are given.
TemplateSpec == [duration |-> 5, streams |-> 1]
Products ==
    { <<>>,
      << <<"streams", <<1, 2>>>> >>,
      << <<"streams", <<>>>> >>,
      << <<"streams", <<1, 2>>>>, <<"duration", <<7>>>> >>,
      << <<"duration", <<7>>>>, <<"streams", <<1, 2>>>> >> }
Explicits == { <<>>, <<[streams |-> 2]>>, <<[streams |-> 1], [streams |-> 2]>> }
Repetitions == 1..MaxRepetitions

DefaultSetStatus ==
    [ permutationCount |-> None, count |-> None, completed |-> EmptyDict,
      succeeded |-> None, failed |-> None, finishedAt |-> 0 ]
NoSet ==
    [ state |-> "absent", rv |-> 0,
      spec |-> [repetitions |-> 1, permutations |-> [product |-> <<>>, explicit |-> <<>>]],
      status |-> DefaultSetStatus ]
IdleSetH ==
    [ kind |-> "idle", pc |-> "", rv |-> 0, st |-> DefaultSetStatus, inv |-> EmptyDict,
      idx |-> 0, clock |-> 1, result |-> "" ]
NoReg == [rv |-> 0, st |-> DefaultSetStatus]

\* ------------------------------------------------------- the discovery path
\* The benchmark whose labels the discovery configmap, the endpoints and the
\* pods carry, and the name of the endpoints object (the kopf kwarg name).
Disc == 1
EndpointsName == "svc"
PodNames == {"w0", "w1"}

\* settings.default_hosts, kept as one line of the hosts file.
default_hosts == "127.0.0.1  localhost"

\* The fields that Configuration declares; reading any other attribute of
\* settings raises AttributeError.
SettingsFields ==
    { "logging", "api_group", "crd_categories", "easykube_field_manager",
      "default_image_prefix", "default_image_tag", "default_image_pull_policy",
      "scheduler_name", "queue_name", "kind_label", "namespace_label", "name_label",
      "component_label", "hosts_from_label", "default_hosts", "initial_priority",
      "resource_prefix" }
HasSetting(field) == field \in SettingsFields

\* An endpoint address; hostname "" and targetRef NoRef stand for a missing key.
NoRef == [kind |-> "", name |-> ""]
Addr ==
    [ W0 |-> [ip |-> "10.0.0.1", hostname |-> "w0", targetRef |-> NoRef],
      W0b |-> [ip |-> "10.0.0.9", hostname |-> "w0",
               targetRef |-> [kind |-> "Pod", name |-> "w0"]],
      W1 |-> [ip |-> "10.0.0.2", hostname |-> "",
              targetRef |-> [kind |-> "Pod", name |-> "w1"]],
      Node |-> [ip |-> "10.0.0.3", hostname |-> "",
                targetRef |-> [kind |-> "Node", name |-> "w1"]],
      Bare |-> [ip |-> "10.0.0.4", hostname |-> "", targetRef |-> NoRef] ]

\* body["subsets"] of the endpoints events that are delivered.
EndpointsBodies ==
    { <<>>,
      << [addresses |-> <<Addr.W0>>, notReadyAddresses |-> <<>>] >>,
      << [addresses |-> <<Addr.W0>>, notReadyAddresses |-> <<Addr.W1>>] >>,
      << [addresses |-> <<Addr.W0, Addr.Node, Addr.Bare>>, notReadyAddresses |-> <<>>] >>,
      << [addresses |-> <<>>, notReadyAddresses |-> <<Addr.W1, Addr.W0>>] >>,
      << [addresses |-> <<Addr.W0>>, notReadyAddresses |-> <<Addr.W1>>],
         [addresses |-> <<Addr.W0b>>, notReadyAddresses |-> <<>>] >> }
EventTypes == {"MODIFIED", "DELETED"}

\* data["all-hosts"] as the lines that splitlines() gives; none when the key is
\* missing or empty.
AllHostsTexts ==
    { <<>>,
      <<"w0.svc">>,
      <<"w0.svc", " w1.svc ">>,
      <<"w0.svc", "", "w1.svc">>,
      <<"w0", "w1">> }

\* str.strip of a line of all-hosts.
Strip(l) == CASE l = " w1.svc " -> "w1.svc" [] l = " " -> "" [] OTHER -> l

\* expected = { l.strip() for l in configmap.data.get("all-hosts", "").splitlines() }
Expected(allHosts) == {Strip(allHosts[i]) : i \in 1..Len(allHosts)}

\* itertools.chain over the subsets of addresses and notReadyAddresses.
RECURSIVE Chain(_)
Chain(subsets) ==
    IF subsets = <<>> THEN <<>>
    ELSE Head(subsets).addresses \o Head(subsets).notReadyAddresses \o Chain(Tail(subsets))

\* The hostname of an address: its hostname, else the name of its Pod targetRef,
\* else "" (the address is skipped).
Hostname(address) ==
    IF address.hostname # "" THEN address.hostname
    ELSE IF address.targetRef # NoRef /\ address.targetRef.kind = "Pod"
         THEN address.targetRef.name
         ELSE ""

\* f"{hostname}.{name}" and f"{address['ip']}  {hostname}.{name}  {hostname}"
HostKey(hostname, name) == hostname \o "." \o name
HostLine(ip, hostname, name) == ip \o "  " \o hostname \o "." \o name \o "  " \o hostname

\* d[k] = v on a dict kept as the sequence of its items: a key that is there
\* keeps its place and takes the new value.
DictSet(d, k, v) ==
    IF \E i \in 1..Len(d) : d[i][1] = k
    THEN [i \in 1..Len(d) |-> IF d[i][1] = k THEN <<k, v>> ELSE d[i]]
    ELSE Append(d, <<k, v>>)
Keys(d) == {d[i][1] : i \in 1..Len(d)}
Values(d) == [i \in 1..Len(d) |-> d[i][2]]

\* The loop of handle_endpoints_event over the addresses, from the dict ips.
RECURSIVE Collect(_, _, _)
Collect(ips, addresses, name) ==
    IF addresses = <<>> THEN ips
    ELSE LET a == Head(addresses)
             hostname == Hostname(a)
         IN Collect(IF hostname = "" THEN ips
                    ELSE DictSet(ips, HostKey(hostname, name), HostLine(a.ip, hostname, name)),
                    Tail(addresses), name)

\* ips after the loop; a DELETED event does not enter it.
Ips(type, subsets, name) ==
    IF type # "DELETED" THEN Collect(<<>>, Chain(subsets), name) ELSE <<>>

\* The hosts file whatever the expected names.
HostsData_Always(expected, ips) == <<default_hosts>> \o Values(ips)

\* data.hosts of the patch, as the lines that "\n".join puts together; no line
\* is the empty string.
HostsData(expected, ips) ==
    IF expected \ Keys(ips) = {} THEN <<default_hosts>> \o Values(ips) ELSE <<>>

NoConfigMap == [state |-> "absent", rv |-> 0, allHosts |-> <<>>, hosts |-> <<>>, dirty |-> FALSE]
NoDiscPod == [state |-> "absent", annotated |-> FALSE]
IdleEpH ==
    [pc |-> "idle", type |-> "", subsets |-> <<>>, rv |-> 0, allHosts |-> <<>>,
     events |-> 0, last |-> ""]
IdleCmH == [pc |-> "idle", listed |-> <<>>, todo |-> <<>>, hosts |-> <<>>, last |-> ""]

\* ------------------------------------------------------ the fio benchmark
\* spec of a fio benchmark: volumeClaimName "" and volumeClaimTemplate "none"
\* stand for a missing key, "empty" for a template that is {}.
FioSpecs ==
    [ volumeClaimName : {"", "data"},
      volumeClaimTemplate : {"none", "empty", "template"},
      clients : {1, 2} ]
NoFioSpec == [volumeClaimName |-> "", volumeClaimTemplate |-> "none", clients |-> 1]

\* not spec.get(key): the key is missing or its value is falsy.
NoClaimName(spec) == spec.volumeClaimName = ""
NoClaimTemplate(spec) == spec.volumeClaimTemplate \in {"none", "empty"}

\* A managed PVC whenever a template is given, whatever the claim name.
ManagedClaim_TemplateFirst(spec) == ~NoClaimTemplate(spec)

\* pvc_name = spec.get("volumeClaimName"); if not pvc_name: a PVC is managed.
ManagedClaim(spec) == NoClaimName(spec)

\* f"{name}-fio-scratch"
ScratchClaim == "fio-scratch"
AccessMode(spec) == IF spec.clients > 1 THEN "ReadWriteMany" ELSE "ReadWriteOnce"

NoFio ==
    [ pc |-> "none", spec |-> NoFioSpec, configmap |-> FALSE, pvc |-> "",
      accessMode |-> "", job |-> "", phase |-> "", result |-> "", retries |-> 0 ]

\* ------------------------------------------------- the events of one run
\* An event of the Volcano job or of the client pod of a benchmark: the type
\* of the watch event, the phase in the body and, for a pod that has
\* succeeded, the log the pod printed.
JobEv(type, phase) == [of |-> "job", type |-> type, phase |-> phase, log |-> 0]
PodEv(phase, log) == [of |-> "pod", type |-> "MODIFIED", phase |-> phase, log |-> log]

\* The job is aborted before its pod runs.
AbortedRun ==
    << JobEv("MODIFIED", "Pending"), JobEv("MODIFIED", "Aborting"),
       JobEv("MODIFIED", "Aborted") >>

\* The job starts and its pod runs.
StartedRun ==
    << JobEv("MODIFIED", "Pending"), PodEv("Running", 0), JobEv("MODIFIED", "Running") >>

\* The pod prints log l and the job completes; the job is deleted afterwards.
CompletedRun(l) ==
    << PodEv("Succeeded", l), JobEv("MODIFIED", "Completing"),
       JobEv("MODIFIED", "Completed"), JobEv("DELETED", "Completed") >>

\* The event streams of a run that ends: aborted, failed, terminated, or
\* completed with the log of a single stream.
EventStreams ==
    {AbortedRun,
     StartedRun \o <<JobEv("MODIFIED", "Failed")>>,
     StartedRun \o <<JobEv("MODIFIED", "Terminating"), JobEv("MODIFIED", "Terminated")>>,
     StartedRun \o CompletedRun(1)}

\* pass 1 is the run, pass 2 the replay; pos counts the events delivered in
\* the pass; from is the saved status the replay starts from and terminal the
\* status the run ended with (DefaultStatus: none yet).
NoReplay ==
    [ stream |-> <<>>, pass |-> 1, pos |-> 0, from |-> DefaultStatus,
      terminal |-> DefaultStatus ]

\* No function has been called.
NoCalc == [fn |-> "", arg |-> <<>>, out |-> ""]

\* ------------------------------------------------------------ initial state
IdleH ==
    [ kind |-> "idle", pc |-> "", rv |-> 0, st |-> DefaultStatus, inv |-> "",
      idx |-> 0, cur |-> 0, saved |-> FALSE ]
IdleEv == [pc |-> "idle", type |-> "", phase |-> "", rv |-> 0, st |-> DefaultStatus]
NoJob == [phase |-> "none", restarts |-> 0, events |-> 0, deleted |-> FALSE]
NoPod == [phase |-> "none", log |-> 0]
NoOut == [handler |-> "", result |-> "", why |-> "", delay |-> 0]
NoHist ==
    [ everRunning |-> FALSE, delPhase |-> "", staleWrite |-> FALSE, lost |-> FALSE,
      evAfterCompleted |-> FALSE ]

\* Every variable but the event stream to replay and the function called.
InitRun ==
    /\ obj = [b \in Benchmarks |->
                [state |-> "absent", rv |-> 0, status |-> DefaultStatus, streams |-> 1]]
    /\ pcs = {}
    /\ children = {}
    /\ nextName = 1
    /\ lock = 0
    /\ handled = [b \in Benchmarks |-> "none"]
    /\ h = [b \in Benchmarks |-> IdleH]
    /\ jobH = [b \in Benchmarks |-> IdleEv]
    /\ podH = [b \in Benchmarks |-> IdleEv]
    /\ job = [b \in Benchmarks |-> NoJob]
    /\ pod = [b \in Benchmarks |-> NoPod]
    /\ now = [b \in Benchmarks |-> 1]
    /\ creates = 0
    /\ out = [b \in Benchmarks |-> NoOut]
    /\ hist = [b \in Benchmarks |-> NoHist]
    /\ bset = NoSet
    /\ kids = <<>>
    /\ seth = IdleSetH
    /\ sethandled = [created |-> FALSE, completed |-> EmptyDict]
    /\ reg = [b \in Benchmarks |-> NoReg]
    /\ cm = NoConfigMap
    /\ pods = [p \in PodNames |-> NoDiscPod]
    /\ epH = IdleEpH
    /\ cmH = IdleCmH
    /\ fio = NoFio

Init == InitRun /\ replay = NoReplay /\ calc = NoCalc

\* A benchmark that has been deleted: nothing of it is stored any more, the
\* annotations in which kopf keeps what it has handled included.
Gone == [state |-> "gone", rv |-> 0, status |-> DefaultStatus, streams |-> 1]

PcsOf(b) == {p \in pcs : p.owner = b}
ChildrenOf(b) == {c \in children : c[1] = b}

\* --------------------------------------------------- save_benchmark_status
\* An apply that does not send the resourceVersion: the server never refuses.
SaveOutcome_NoVersion(b, rv) ==
    IF obj[b].state \notin {"present", "deleting"} THEN "notfound" ELSE "ok"

\* The server-side apply of the status with the observed resourceVersion.
SaveOutcome(b, rv) ==
    IF obj[b].state \notin {"present", "deleting"} THEN "notfound"
    ELSE IF rv # obj[b].rv THEN "conflict"
    ELSE "ok"

\* A temporary error that asks for no delay.
SaveError_NoDelay(o) ==
    IF o = "conflict"
    THEN [result |-> "temporary", why |-> "conflict", delay |-> 0]
    ELSE [result |-> "error", why |-> o, delay |-> 0]

\* What save_benchmark_status raises when the apply is refused: for a 409 a
\* temporary error with its delay, else the ApiError as it came.
SaveError(o) ==
    IF o = "conflict"
    THEN [result |-> "temporary", why |-> "conflict", delay |-> ConflictDelay]
    ELSE [result |-> "error", why |-> o, delay |-> 0]

\* The stored object after a successful apply of status st (an apply that
\* changes nothing leaves the resourceVersion alone).
Stored(b, st) ==
    [obj[b] EXCEPT !.status = st,
                   !.rv = IF obj[b].status = st THEN obj[b].rv ELSE obj[b].rv + 1]

\* History of a status write made from a copy read at resourceVersion rv.
Wrote(b, rv, st, byEvent) ==
    [hist[b] EXCEPT
        !.everRunning = @ \/ st.phase = "Running",
        !.staleWrite = @ \/ rv # obj[b].rv,
        !.lost = @ \/ (obj[b].status.startedAt # 0 /\ st.startedAt # obj[b].status.startedAt)
                   \/ (obj[b].status.finishedAt # 0
                         /\ st.finishedAt # obj[b].status.finishedAt)
                   \/ (obj[b].status.result # 0 /\ st.result # obj[b].status.result)
                   \/ (obj[b].status.clientPod /\ ~st.clientPod)
                   \/ (obj[b].status.clientLog # 0 /\ st.clientLog # obj[b].status.clientLog)
                   \/ (obj[b].status.priorityClassName # 0
                         /\ st.priorityClassName # obj[b].status.priorityClassName),
        !.evAfterCompleted = @ \/ (byEvent /\ obj[b].status.phase = "Completed"
                                     /\ st # obj[b].status)]

\* ------------------------------------------------------------ the user
\* kubectl create of an iperf benchmark with spec.streams = s, once every trace
\* of an earlier benchmark of that name is gone.  The new object is a new
\* object: its resourceVersion and its clock are counted from its creation.
UserCreate(b, s) ==
    /\ obj[b].state \in {"absent", "gone"}
    /\ ChildrenOf(b) = {}
    /\ h[b].kind = "idle" /\ jobH[b].pc = "idle" /\ podH[b].pc = "idle"
    /\ creates < MaxCreates
    /\ obj' = [obj EXCEPT ![b] = [state |-> "present", rv |-> 0,
                                  status |-> DefaultStatus, streams |-> s]]
    /\ now' = [now EXCEPT ![b] = 1]
    /\ handled' = [handled EXCEPT ![b] = "none"]
    /\ creates' = creates + 1
    /\ hist' = [hist EXCEPT ![b] = NoHist]
    /\ out' = [out EXCEPT ![b] = NoOut]
    /\ job' = [job EXCEPT ![b] = NoJob]
    /\ pod' = [pod EXCEPT ![b] = NoPod]
    /\ UNCHANGED <<pcs, children, nextName, lock, h, jobH, podH>>
    /\ UNCHANGED svars
    /\ UNCHANGED dvars

\* kubectl delete: the deletionTimestamp is set, which is a change of the object
\* (a new resourceVersion), and the finalizer holds the object.
UserDelete(b) ==
    /\ obj[b].state = "present"
    /\ obj' = [obj EXCEPT ![b].state = "deleting", ![b].rv = @ + 1]
    /\ hist' = [hist EXCEPT ![b].delPhase = obj[b].status.phase]
    /\ UNCHANGED <<pcs, children, nextName, lock, handled, h, jobH, podH, job, pod,
                   now, creates, out>>
    /\ UNCHANGED svars
    /\ UNCHANGED dvars

\* The garbage collector: the children carry an ownerReference to the benchmark.
CollectChildren(b) ==
    /\ obj[b].state = "gone"
    /\ ChildrenOf(b) # {}
    /\ children' = children \ ChildrenOf(b)
    /\ job' = [job EXCEPT ![b] = NoJob]
    /\ pod' = [pod EXCEPT ![b] = NoPod]
    /\ UNCHANGED <<obj, pcs, nextName, lock, handled, h, jobH, podH, now, creates,
                   out, hist>>
    /\ UNCHANGED svars
    /\ UNCHANGED dvars

\* ------------------------------------------------- how a kopf handler ends
\* kopf runs the create, status-changed and delete handlers of one benchmark
\* one at a time.  A handler that returns records the status.phase it was
\* invoked with as handled; one that raises is run again on the current object.
Ended(b, kind, inv, res, why, delay) ==
    /\ h' = [h EXCEPT ![b] = IdleH]
    /\ out' = [out EXCEPT ![b] =
                 [handler |-> kind, result |-> res, why |-> why, delay |-> delay]]
    /\ handled' = IF res = "ok" THEN [handled EXCEPT ![b] = inv] ELSE handled

\* A kopf handler whose save_benchmark_status raises ends with what is raised.
SaveRaises(b, kind) ==
    LET e == SaveError(SaveOutcome(b, h[b].rv))
    IN Ended(b, kind, h[b].inv, e.result, e.why, e.delay)

\* The greatest value, where the handler takes the least.
Min_Greatest(S) == CHOOSE x \in S : \A y \in S : x >= y

Min(S) == CHOOSE x \in S : \A y \in S : x <= y

\* The value of the last class listed, here the greatest, where the handler
\* keeps the least.
current_priority_Last(values) ==
    IF values = {} THEN initial_priority + 1
    ELSE CHOOSE x \in values : \A y \in values : x >= y

\* current_priority after the listing of the classes with these values, none
\* of them the benchmark's own.
current_priority(values) == Min({initial_priority + 1} \cup values)

\* ------------------------------------------------ handle_benchmark_created
CreateStart(b) ==
    /\ h[b].kind = "idle"
    /\ obj[b].state = "present"
    /\ handled[b] = "none"
    /\ LET st == obj[b].status
       IN h' = [h EXCEPT ![b] =
                  [IdleH EXCEPT !.kind = "create", !.rv = obj[b].rv, !.inv = st.phase,
                     !.st = IF st.phase = "Unknown"
                            THEN [st EXCEPT !.phase = "Preparing"] ELSE st,
                     !.pc = IF st.phase = "Unknown" THEN "ack" ELSE "list"]]
    /\ UNCHANGED <<obj, pcs, children, nextName, lock, handled, jobH, podH, job, pod,
                   now, creates, out, hist>>
    /\ UNCHANGED svars
    /\ UNCHANGED dvars

CreateAck(b) ==
    /\ h[b].kind = "create" /\ h[b].pc = "ack"
    /\ IF SaveOutcome(b, h[b].rv) = "ok"
       THEN /\ obj' = [obj EXCEPT ![b] = Stored(b, h[b].st)]
            /\ hist' = [hist EXCEPT ![b] = Wrote(b, h[b].rv, h[b].st, FALSE)]
            /\ h' = [h EXCEPT ![b].rv = Stored(b, h[b].st).rv, ![b].pc = "list"]
            /\ UNCHANGED <<out, handled>>
       ELSE /\ SaveRaises(b, "create")
            /\ UNCHANGED <<obj, hist>>
    /\ UNCHANGED <<pcs, children, nextName, lock, jobH, podH, job, pod, now, creates>>
    /\ UNCHANGED svars
    /\ UNCHANGED dvars

\* The allocator without its lock: the listing never waits.
LockFree_NoLock(b) == TRUE

\* async with PRIORITY_LOCK: the lock is free, or held by another handler.
LockFree(b) == lock = 0

\* The listing without the test of the benchmark's labels: every class only
\* lowers current_priority and a class is always created.
CreateList_NoReuse(b) ==
    /\ h[b].kind = "create" /\ h[b].pc = "list"
    /\ LockFree(b)
    /\ h' = [h EXCEPT ![b].pc = "makepc",
                ![b].cur = current_priority({p.value : p \in pcs})]
    /\ lock' = b
    /\ UNCHANGED <<obj, pcs, children, nextName, handled, jobH, podH, job, pod, now,
                   creates, out, hist>>
    /\ UNCHANGED svars
    /\ UNCHANGED dvars

\* The listing of the priority classes that carry the kind label, under the lock.
CreateList(b) ==
    /\ h[b].kind = "create" /\ h[b].pc = "list"
    /\ LockFree(b)
    /\ IF PcsOf(b) # {}
       THEN /\ \E p \in PcsOf(b) :
                 h' = [h EXCEPT ![b].st.priorityClassName = p.name,
                                ![b].pc = "apply", ![b].idx = 1]
            /\ lock' = lock
       ELSE /\ h' = [h EXCEPT ![b].pc = "makepc",
                       ![b].cur = current_priority({p.value : p \in pcs})]
            /\ lock' = b
    /\ UNCHANGED <<obj, pcs, children, nextName, handled, jobH, podH, job, pod, now,
                   creates, out, hist>>
    /\ UNCHANGED svars
    /\ UNCHANGED dvars

\* The creation of the class at the value found by the listing, not one below it.
CreateMakePC_NoDecrement(b) ==
    /\ h[b].kind = "create" /\ h[b].pc = "makepc"
    /\ pcs' = pcs \cup {[name |-> nextName, owner |-> b, value |-> h[b].cur]}
    /\ nextName' = nextName + 1
    /\ lock' = 0
    /\ h' = [h EXCEPT ![b].st.priorityClassName = nextName, ![b].pc = "apply",
                      ![b].idx = 1]
    /\ UNCHANGED <<obj, children, handled, jobH, podH, job, pod, now, creates, out,
                   hist>>
    /\ UNCHANGED svars
    /\ UNCHANGED dvars

\* resource.create of the class, one below the lowest value the listing saw.
CreateMakePC(b) ==
    /\ h[b].kind = "create" /\ h[b].pc = "makepc"
    /\ pcs' = pcs \cup {[name |-> nextName, owner |-> b, value |-> h[b].cur - 1]}
    /\ nextName' = nextName + 1
    /\ lock' = 0
    /\ h' = [h EXCEPT ![b].st.priorityClassName = nextName, ![b].pc = "apply",
                      ![b].idx = 1]
    /\ UNCHANGED <<obj, children, handled, jobH, podH, job, pod, now, creates, out,
                   hist>>
    /\ UNCHANGED svars
    /\ UNCHANGED dvars

\* resource.create of the class answered with 409 AlreadyExists (the name the
\* server generated is taken): the call is in no try block, so the ApiError
\* leaves the lock and the handler, and kopf runs the handler again.
CreateMakePCExists(b) ==
    /\ h[b].kind = "create" /\ h[b].pc = "makepc"
    /\ lock' = 0
    /\ Ended(b, "create", h[b].inv, "error", "exists", 0)
    /\ UNCHANGED <<obj, pcs, children, nextName, jobH, podH, job, pod, now, creates,
                   hist>>
    /\ UNCHANGED svars
    /\ UNCHANGED dvars

\* EK_CLIENT.apply_object of one rendered resource; the Volcano job is one of them.
CreateApply(b) ==
    /\ h[b].kind = "create" /\ h[b].pc = "apply"
    /\ children' = children \cup {<<b, h[b].idx>>}
    /\ job' = IF h[b].idx = JobChild /\ <<b, JobChild>> \notin children
              THEN [job EXCEPT ![b] = NoJob]
              ELSE job
    /\ h' = [h EXCEPT ![b].st.managedResources = Append(@, h[b].idx),
                      ![b].idx = @ + 1,
                      ![b].pc = IF h[b].idx = NumChildren THEN "save" ELSE "apply"]
    /\ UNCHANGED <<obj, pcs, nextName, lock, handled, jobH, podH, pod, now, creates,
                   out, hist>>
    /\ UNCHANGED svars
    /\ UNCHANGED dvars

CreateSave(b) ==
    /\ h[b].kind = "create" /\ h[b].pc = "save"
    /\ IF SaveOutcome(b, h[b].rv) = "ok"
       THEN /\ obj' = [obj EXCEPT ![b] = Stored(b, h[b].st)]
            /\ hist' = [hist EXCEPT ![b] = Wrote(b, h[b].rv, h[b].st, FALSE)]
            /\ Ended(b, "create", h[b].inv, "ok", "", 0)
       ELSE /\ SaveRaises(b, "create")
            /\ UNCHANGED <<obj, hist>>
    /\ UNCHANGED <<pcs, children, nextName, lock, jobH, podH, job, pod, now, creates>>
    /\ UNCHANGED svars
    /\ UNCHANGED dvars

\* ------------------------------------------- handle_benchmark_status_changed
\* metadata.owner_references names a benchmark set: the benchmark is one of
\* those the set's create handler applied.
Owned(b) == \E i \in 1..Len(kids) : kids[i].name = b

\* kopf.on.update(field = "status.phase"): due once the create handler has
\* returned and the stored phase differs from the phase last handled.
StatusDue(b) ==
    /\ h[b].kind = "idle"
    /\ obj[b].state = "present"
    /\ handled[b] # "none"
    /\ obj[b].status.phase # handled[b]

Invoked(b, pc, st) ==
    [IdleH EXCEPT !.kind = "status", !.pc = pc, !.rv = obj[b].rv, !.st = st,
                  !.inv = obj[b].status.phase]

\* The terminal branch without the test of line 237: finished_at is set on
\* every call.
StatusTerminal_Always(b) ==
    /\ StatusDue(b)
    /\ obj[b].status.phase \in TerminalPhases
    /\ h' = [h EXCEPT ![b] =
                Invoked(b, "save", [obj[b].status EXCEPT !.finishedAt = now[b]])]
    /\ now' = [now EXCEPT ![b] = @ + 1]
    /\ UNCHANGED <<out, handled>>
    /\ UNCHANGED <<obj, pcs, children, nextName, lock, jobH, podH, job, pod, creates,
                   hist>>
    /\ UNCHANGED svars
    /\ UNCHANGED dvars

\* A terminal phase: set finished_at once, then register the completion with
\* the owning set if the benchmark has one.
StatusTerminal(b) ==
    /\ StatusDue(b)
    /\ obj[b].status.phase \in TerminalPhases
    /\ IF obj[b].status.finishedAt = 0
       THEN /\ h' = [h EXCEPT ![b] =
                       Invoked(b, "save", [obj[b].status EXCEPT !.finishedAt = now[b]])]
            /\ now' = [now EXCEPT ![b] = @ + 1]
            /\ UNCHANGED <<out, handled>>
       ELSE IF Owned(b)
       THEN /\ h' = [h EXCEPT ![b] = Invoked(b, "regfetch", obj[b].status)]
            /\ UNCHANGED <<now, out, handled>>
       ELSE /\ Ended(b, "status", obj[b].status.phase, "ok", "", 0)
            /\ now' = now
    /\ UNCHANGED <<obj, pcs, children, nextName, lock, jobH, podH, job, pod, creates,
                   hist>>
    /\ UNCHANGED svars
    /\ UNCHANGED dvars

StatusRunning(b) ==
    /\ StatusDue(b)
    /\ obj[b].status.phase = "Running"
    /\ IF obj[b].status.startedAt = 0
       THEN /\ h' = [h EXCEPT ![b] =
                       Invoked(b, "save", [obj[b].status EXCEPT !.startedAt = now[b]])]
            /\ now' = [now EXCEPT ![b] = @ + 1]
            /\ UNCHANGED <<out, handled>>
       ELSE /\ Ended(b, "status", "Running", "ok", "", 0)
            /\ now' = now
    /\ UNCHANGED <<obj, pcs, children, nextName, lock, jobH, podH, job, pod, creates,
                   hist>>
    /\ UNCHANGED svars
    /\ UNCHANGED dvars

\* The Summarising branch without its except clause: incomplete results
\* propagate like any other exception.
StatusSummarising_NoCatch(b) ==
    /\ StatusDue(b)
    /\ obj[b].status.phase = "Summarising"
    /\ LET r == Summarise(obj[b].status, obj[b].streams)
       IN CASE r = "ok" ->
                 /\ h' = [h EXCEPT ![b] =
                            Invoked(b, "sumsave", [obj[b].status EXCEPT !.result = 1])]
                 /\ UNCHANGED <<out, handled>>
            [] OTHER ->
                 Ended(b, "status", "Summarising", "error", r, 0)
    /\ UNCHANGED <<obj, pcs, children, nextName, lock, jobH, podH, job, pod, now,
                   creates, hist>>
    /\ UNCHANGED svars
    /\ UNCHANGED dvars

\* Summarising: benchmark.summarise(), with PodResultsIncompleteError turned
\* into a temporary error and every other exception left to propagate.
StatusSummarising(b) ==
    /\ StatusDue(b)
    /\ obj[b].status.phase = "Summarising"
    /\ LET r == Summarise(obj[b].status, obj[b].streams)
       IN CASE r = "ok" ->
                 /\ h' = [h EXCEPT ![b] =
                            Invoked(b, "sumsave", [obj[b].status EXCEPT !.result = 1])]
                 /\ UNCHANGED <<out, handled>>
            [] r = "incomplete" ->
                 Ended(b, "status", "Summarising", "temporary", r, IncompleteDelay)
            [] OTHER ->
                 Ended(b, "status", "Summarising", "error", r, 0)
    /\ UNCHANGED <<obj, pcs, children, nextName, lock, jobH, podH, job, pod, now,
                   creates, hist>>
    /\ UNCHANGED svars
    /\ UNCHANGED dvars

\* Every other phase: nothing to do.
StatusOther(b) ==
    /\ StatusDue(b)
    /\ obj[b].status.phase \notin TerminalPhases \cup {"Running", "Summarising"}
    /\ Ended(b, "status", obj[b].status.phase, "ok", "", 0)
    /\ UNCHANGED <<obj, pcs, children, nextName, lock, jobH, podH, job, pod, now,
                   creates, hist>>
    /\ UNCHANGED svars
    /\ UNCHANGED dvars

\* The save of finished_at or started_at, which ends the handler.
StatusSave(b) ==
    /\ h[b].kind = "status" /\ h[b].pc = "save"
    /\ IF SaveOutcome(b, h[b].rv) = "ok"
       THEN /\ obj' = [obj EXCEPT ![b] = Stored(b, h[b].st)]
            /\ hist' = [hist EXCEPT ![b] = Wrote(b, h[b].rv, h[b].st, FALSE)]
            /\ IF h[b].inv \in TerminalPhases /\ Owned(b)
               THEN /\ h' = [h EXCEPT ![b].pc = "regfetch"]
                    /\ UNCHANGED <<out, handled>>
               ELSE Ended(b, "status", h[b].inv, "ok", "", 0)
       ELSE /\ SaveRaises(b, "status")
            /\ UNCHANGED <<obj, hist>>
    /\ UNCHANGED <<pcs, children, nextName, lock, jobH, podH, job, pod, now, creates>>
    /\ UNCHANGED svars
    /\ UNCHANGED dvars

\* status.completed[name] = True, whatever the phase.
Put_Succeeded(completed, name, succeeded) ==
    [n \in DOMAIN completed \cup {name} |->
        IF n = name THEN TRUE ELSE completed[n]]

\* status.completed[name] = succeeded
Put(completed, name, succeeded) ==
    [n \in DOMAIN completed \cup {name} |->
        IF n = name THEN succeeded ELSE completed[n]]

\* An apply of the set's status that does not send the resourceVersion.
SetSaveOutcome_NoVersion(rv) ==
    IF bset.state # "present" THEN "notfound" ELSE "ok"

\* The server-side apply of the set's status with the observed resourceVersion.
SetSaveOutcome(rv) ==
    IF bset.state # "present" THEN "notfound"
    ELSE IF rv # bset.rv THEN "conflict"
    ELSE "ok"

SetStored(st) ==
    [bset EXCEPT !.status = st,
                 !.rv = IF bset.status = st THEN bset.rv ELSE bset.rv + 1]

\* resource.fetch of the owning set and the entry for this benchmark; a set
\* that is not there (404) ends the handler.
StatusRegFetch(b) ==
    /\ h[b].kind = "status" /\ h[b].pc = "regfetch"
    /\ IF bset.state = "present"
       THEN /\ reg' = [reg EXCEPT ![b] =
                         [rv |-> bset.rv,
                          st |-> [bset.status EXCEPT
                                    !.completed = Put(@, b, h[b].inv = "Completed")]]]
            /\ h' = [h EXCEPT ![b].pc = "regsave"]
            /\ UNCHANGED <<out, handled>>
       ELSE /\ Ended(b, "status", h[b].inv, "ok", "", 0)
            /\ reg' = reg
    /\ UNCHANGED <<obj, pcs, children, nextName, lock, jobH, podH, job, pod, now,
                   creates, hist, bset, kids, seth, sethandled>>
    /\ UNCHANGED dvars

\* save_benchmark_status of the set, which ends the handler.
StatusRegSave(b) ==
    /\ h[b].kind = "status" /\ h[b].pc = "regsave"
    /\ IF SetSaveOutcome(reg[b].rv) = "ok"
       THEN /\ bset' = SetStored(reg[b].st)
            /\ Ended(b, "status", h[b].inv, "ok", "", 0)
       ELSE IF SetSaveOutcome(reg[b].rv) = "conflict"
       THEN /\ bset' = bset
            /\ Ended(b, "status", h[b].inv, "temporary", "conflict", ConflictDelay)
       ELSE /\ bset' = bset
            /\ Ended(b, "status", h[b].inv, "ok", "", 0)
    /\ reg' = [reg EXCEPT ![b] = NoReg]
    /\ UNCHANGED <<obj, pcs, children, nextName, lock, jobH, podH, job, pod, now,
                   creates, hist, kids, seth, sethandled>>
    /\ UNCHANGED dvars

\* The Summarising branch without line 280: the teardown starts unsaved.
StatusSumSave_NoSave(b) ==
    /\ h[b].kind = "status" /\ h[b].pc = "sumsave"
    /\ h' = [h EXCEPT ![b].idx = 1,
                      ![b].pc = IF Len(h[b].st.managedResources) > 0
                                THEN "del" ELSE "delpc"]
    /\ UNCHANGED <<obj, hist, out, handled>>
    /\ UNCHANGED <<pcs, children, nextName, lock, jobH, podH, job, pod, now, creates>>
    /\ UNCHANGED svars
    /\ UNCHANGED dvars

\* The save of the summarised status; the teardown follows it.
StatusSumSave(b) ==
    /\ h[b].kind = "status" /\ h[b].pc = "sumsave"
    /\ IF SaveOutcome(b, h[b].rv) = "ok"
       THEN /\ obj' = [obj EXCEPT ![b] = Stored(b, h[b].st)]
            /\ hist' = [hist EXCEPT ![b] = Wrote(b, h[b].rv, h[b].st, FALSE)]
            /\ h' = [h EXCEPT ![b].rv = Stored(b, h[b].st).rv, ![b].saved = TRUE,
                              ![b].idx = 1,
                              ![b].pc = IF Len(h[b].st.managedResources) > 0
                                        THEN "del" ELSE "delpc"]
            /\ UNCHANGED <<out, handled>>
       ELSE /\ SaveRaises(b, "status")
            /\ UNCHANGED <<obj, hist>>
    /\ UNCHANGED <<pcs, children, nextName, lock, jobH, podH, job, pod, now, creates>>
    /\ UNCHANGED svars
    /\ UNCHANGED dvars

\* resource.delete of one managed resource (a 404 is not an error).  Deleting
\* the job takes its pods with it and is seen as a DELETED job event.
Deleted(b, ref) ==
    /\ children' = children \ {<<b, ref>>}
    /\ job' = IF ref = JobChild /\ <<b, JobChild>> \in children
              THEN [job EXCEPT ![b].deleted = TRUE] ELSE job
    /\ pod' = IF ref = JobChild THEN [pod EXCEPT ![b] = NoPod] ELSE pod

\* A delete addressed to the collection: no class is left.
WithoutClass_All(name) == {}

\* resource.delete of the priority class named in the status.
WithoutClass(name) == {p \in pcs : p.name # name}

StatusDel(b) ==
    /\ h[b].kind = "status" /\ h[b].pc = "del"
    /\ Deleted(b, h[b].st.managedResources[h[b].idx])
    /\ h' = [h EXCEPT ![b].idx = @ + 1,
                      ![b].pc = IF h[b].idx = Len(h[b].st.managedResources)
                                THEN "delpc" ELSE "del"]
    /\ UNCHANGED <<obj, pcs, nextName, lock, handled, jobH, podH, now, creates, out,
                   hist>>
    /\ UNCHANGED svars
    /\ UNCHANGED dvars

StatusDelPC(b) ==
    /\ h[b].kind = "status" /\ h[b].pc = "delpc"
    /\ pcs' = WithoutClass(h[b].st.priorityClassName)
    /\ h' = [h EXCEPT ![b].st.phase = "Completed", ![b].st.managedResources = <<>>,
                      ![b].pc = "compsave"]
    /\ UNCHANGED <<obj, children, nextName, lock, handled, jobH, podH, job, pod, now,
                   creates, out, hist>>
    /\ UNCHANGED svars
    /\ UNCHANGED dvars

StatusCompSave(b) ==
    /\ h[b].kind = "status" /\ h[b].pc = "compsave"
    /\ IF SaveOutcome(b, h[b].rv) = "ok"
       THEN /\ obj' = [obj EXCEPT ![b] = Stored(b, h[b].st)]
            /\ hist' = [hist EXCEPT ![b] = Wrote(b, h[b].rv, h[b].st, FALSE)]
            /\ Ended(b, "status", h[b].inv, "ok", "", 0)
       ELSE /\ SaveRaises(b, "status")
            /\ UNCHANGED <<obj, hist>>
    /\ UNCHANGED <<pcs, children, nextName, lock, jobH, podH, job, pod, now, creates>>
    /\ UNCHANGED svars
    /\ UNCHANGED dvars

\* ------------------------------------------------ handle_benchmark_deleted
DeleteStart(b) ==
    /\ h[b].kind = "idle"
    /\ obj[b].state = "deleting"
    /\ h' = [h EXCEPT ![b] =
               [IdleH EXCEPT !.kind = "delete", !.rv = obj[b].rv, !.st = obj[b].status,
                  !.inv = obj[b].status.phase, !.idx = 1,
                  !.pc = IF Len(obj[b].status.managedResources) > 0
                         THEN "del" ELSE "delpc"]]
    /\ UNCHANGED <<obj, pcs, children, nextName, lock, handled, jobH, podH, job, pod,
                   now, creates, out, hist>>
    /\ UNCHANGED svars
    /\ UNCHANGED dvars

\* The loop of the delete handler where a child that is already gone makes
\* resource.delete raise: the handler ends there with the 404.
DeleteDel_Raises404(b) ==
    /\ h[b].kind = "delete" /\ h[b].pc = "del"
    /\ IF <<b, h[b].st.managedResources[h[b].idx]>> \in children
       THEN /\ Deleted(b, h[b].st.managedResources[h[b].idx])
            /\ h' = [h EXCEPT ![b].idx = @ + 1,
                              ![b].pc = IF h[b].idx = Len(h[b].st.managedResources)
                                        THEN "delpc" ELSE "del"]
            /\ UNCHANGED <<handled, out>>
       ELSE /\ Ended(b, "delete", h[b].inv, "error", "notfound", 0)
            /\ UNCHANGED <<children, job, pod>>
    /\ UNCHANGED <<obj, pcs, nextName, lock, jobH, podH, now, creates, hist>>
    /\ UNCHANGED svars
    /\ UNCHANGED dvars

\* The loop of the delete handler over status.managed_resources.
DeleteDel(b) ==
    /\ h[b].kind = "delete" /\ h[b].pc = "del"
    /\ Deleted(b, h[b].st.managedResources[h[b].idx])
    /\ h' = [h EXCEPT ![b].idx = @ + 1,
                      ![b].pc = IF h[b].idx = Len(h[b].st.managedResources)
                                THEN "delpc" ELSE "del"]
    /\ UNCHANGED <<obj, pcs, nextName, lock, handled, jobH, podH, now, creates, out,
                   hist>>
    /\ UNCHANGED svars
    /\ UNCHANGED dvars

\* resource.delete(status.priority_class_name) in the delete handler.  A name
\* that is set deletes that class.  With no name stored (None) the call is up
\* to the client library: it finds nothing to delete, it addresses the whole
\* collection, or the API refuses it and the call raises.
ClassDeleteOutcomes(name) ==
    IF name # 0
    THEN {[raised |-> FALSE, left |-> WithoutClass(name)]}
    ELSE {[raised |-> FALSE, left |-> pcs], [raised |-> FALSE, left |-> {}],
          [raised |-> TRUE, left |-> pcs]}

\* The last step: the handler returns and kopf lets the object go, or the
\* handler raises and is run again.
DeleteDelPC(b) ==
    /\ h[b].kind = "delete" /\ h[b].pc = "delpc"
    /\ \E o \in ClassDeleteOutcomes(h[b].st.priorityClassName) :
         /\ pcs' = o.left
         /\ IF o.raised
            THEN /\ Ended(b, "delete", h[b].inv, "error", "api", 0)
                 /\ obj' = obj
            ELSE /\ Ended(b, "delete", "none", "ok", "", 0)
                 /\ obj' = [obj EXCEPT ![b] = Gone]
    /\ UNCHANGED <<children, nextName, lock, jobH, podH, job, pod, now, creates, hist>>
    /\ UNCHANGED svars
    /\ UNCHANGED dvars

\* ------------------------------------------------ on_benchmark_resource_event
\* A fetch that always finds a benchmark.
Fetched_Always(b) == TRUE

\* The fetch of the benchmark named by the labels of the observed object
\* finds it; a 404 ends the handler without error.
Fetched(b) == obj[b].state \in {"present", "deleting"}

\* ------------------------------------------------------- Benchmark.job_modified
\* BenchmarkPhase: the members of the enumeration and their values.
BenchmarkPhase ==
    [ UNKNOWN |-> "Unknown", PREPARING |-> "Preparing", PENDING |-> "Pending",
      ABORTING |-> "Aborting", ABORTED |-> "Aborted", RUNNING |-> "Running",
      RESTARTING |-> "Restarting", COMPLETING |-> "Completing",
      SUMMARISING |-> "Summarising", COMPLETED |-> "Completed",
      TERMINATING |-> "Terminating", TERMINATED |-> "Terminated", FAILED |-> "Failed" ]

\* BenchmarkPhase(value): the member that has this value (a ValueError when
\* no member has it).
PhaseOf(value) ==
    IF \E m \in DOMAIN BenchmarkPhase : BenchmarkPhase[m] = value
    THEN BenchmarkPhase[CHOOSE m \in DOMAIN BenchmarkPhase : BenchmarkPhase[m] = value]
    ELSE "ValueError"

\* job_modified without the test of line 171: every job phase is mirrored.
JobModified_Mirror(job_phase) == PhaseOf(job_phase)

JobModified(job_phase) ==
    IF job_phase = "Completed" THEN BenchmarkPhase.SUMMARISING ELSE PhaseOf(job_phase)

\* ------------------------------------------- the Volcano job and the client pod
JobExists(b) == <<b, JobChild>> \in children

\* The phases the next event of a Volcano job may report, after the phase its
\* last event reported; a job just applied reports none ("Unknown").
JobSucc(b) ==
    CASE job[b].phase = "none" -> {"Unknown"}
      [] job[b].phase = "Unknown" -> {"Pending"}
      [] job[b].phase = "Pending" ->
            (IF pod[b].phase = "Running" THEN {"Running"} ELSE {}) \cup {"Aborting"}
      [] job[b].phase = "Running" ->
            (IF pod[b].phase = "Succeeded" THEN {"Completing"} ELSE {})
            \cup (IF job[b].restarts < MaxRestarts THEN {"Restarting"} ELSE {})
            \cup {"Terminating", "Failed"}
      [] job[b].phase = "Restarting" -> {"Running"}
      [] job[b].phase = "Completing" -> {"Completed"}
      [] job[b].phase = "Aborting" -> {"Aborted"}
      [] job[b].phase = "Terminating" -> {"Terminated"}
      [] OTHER -> {}

\* The phases the next event of the client pod may report, with the log it printed.
PodSucc(b) ==
    CASE pod[b].phase = "none" /\ job[b].phase = "Pending" -> {<<"Running", 0>>}
      [] pod[b].phase = "Running" /\ job[b].phase = "Running" ->
            {<<"Succeeded", l>> : l \in 1..Len(Logs)}
      [] OTHER -> {}

\* ------------------------------- on_benchmark_resource_event + handle_job_event
\* handle_job_event compares the builtin type with "DELETED": never equal.
JobTypeIsDeleted(type) == FALSE

\* handle_job_event without lines 349-351: events of a completed benchmark
\* are handled like any other.
JobHandle_NoCompletedCheck(b, type, phase) ==
    jobH' = [jobH EXCEPT ![b] =
               IF \/ ~Fetched(b)
                  \/ JobTypeIsDeleted(type)
               THEN IdleEv
               ELSE [pc |-> "save", type |-> type, phase |-> phase, rv |-> obj[b].rv,
                     st |-> [obj[b].status EXCEPT !.phase = JobModified(phase)]]]

\* handle_job_event from the fetch of the owning benchmark up to its save.
JobHandle(b, type, phase) ==
    jobH' = [jobH EXCEPT ![b] =
               IF \/ ~Fetched(b)
                  \/ JobTypeIsDeleted(type)
                  \/ obj[b].status.phase = "Completed"
               THEN IdleEv
               ELSE [pc |-> "save", type |-> type, phase |-> phase, rv |-> obj[b].rv,
                     st |-> [obj[b].status EXCEPT !.phase = JobModified(phase)]]]

\* An event of the job: it reports its next phase.
JobEvent(b) ==
    /\ jobH[b].pc = "idle"
    /\ JobExists(b)
    /\ \E p \in JobSucc(b) :
         /\ job' = [job EXCEPT ![b].phase = p,
                               ![b].restarts = IF p = "Restarting" THEN @ + 1 ELSE @]
         /\ JobHandle(b, "MODIFIED", p)
    /\ UNCHANGED <<obj, pcs, children, nextName, lock, handled, h, podH, pod, now,
                   creates, out, hist>>
    /\ UNCHANGED svars
    /\ UNCHANGED dvars

\* The DELETED event of a job that has been deleted: it carries the job's last state.
JobDeletedEvent(b) ==
    /\ jobH[b].pc = "idle"
    /\ job[b].deleted
    /\ job' = [job EXCEPT ![b].deleted = FALSE]
    /\ JobHandle(b, "DELETED", IF job[b].phase = "none" THEN "Unknown" ELSE job[b].phase)
    /\ UNCHANGED <<obj, pcs, children, nextName, lock, handled, h, podH, pod, now,
                   creates, out, hist>>
    /\ UNCHANGED svars
    /\ UNCHANGED dvars

\* A retry that saves the copy it has again, without a new fetch.
JobEventRetry_Stale(b) ==
    /\ jobH[b].pc = "retry"
    /\ jobH' = [jobH EXCEPT ![b].pc = "save"]
    /\ UNCHANGED <<obj, pcs, children, nextName, lock, handled, h, podH, job, pod, now,
                   creates, out, hist>>
    /\ UNCHANGED svars
    /\ UNCHANGED dvars

\* The retry loop of on_benchmark_resource_event: after the delay, fetch again.
JobEventRetry(b) ==
    /\ jobH[b].pc = "retry"
    /\ JobHandle(b, jobH[b].type, jobH[b].phase)
    /\ UNCHANGED <<obj, pcs, children, nextName, lock, handled, h, podH, job, pod, now,
                   creates, out, hist>>
    /\ UNCHANGED svars
    /\ UNCHANGED dvars

JobEventSave(b) ==
    /\ jobH[b].pc = "save"
    /\ LET o == SaveOutcome(b, jobH[b].rv)
       IN /\ obj' = IF o = "ok" THEN [obj EXCEPT ![b] = Stored(b, jobH[b].st)] ELSE obj
          /\ hist' = IF o = "ok"
                     THEN [hist EXCEPT ![b] = Wrote(b, jobH[b].rv, jobH[b].st, TRUE)]
                     ELSE hist
          /\ jobH' = [jobH EXCEPT ![b] =
                        IF o = "conflict" THEN [jobH[b] EXCEPT !.pc = "retry"]
                        ELSE IdleEv]
    /\ UNCHANGED <<pcs, children, nextName, lock, handled, h, podH, job, pod, now,
                   creates, out>>
    /\ UNCHANGED svars
    /\ UNCHANGED dvars

\* ------------------------------- on_benchmark_resource_event + handle_pod_event
PodTypeIsDeleted(type) == type = "DELETED"

\* handle_pod_event from the fetch of the owning benchmark up to the first await
\* of IPerf.pod_modified: Running records the pod info, Succeeded goes on to
\* fetch the pod log, anything else changes nothing.
PodHandle(b, type, phase) ==
    podH' = [podH EXCEPT ![b] =
               IF \/ ~Fetched(b)
                  \/ PodTypeIsDeleted(type)
                  \/ obj[b].status.phase = "Completed"
               THEN IdleEv
               ELSE [pc |-> IF phase = "Succeeded" THEN "log" ELSE "save",
                     type |-> type, phase |-> phase, rv |-> obj[b].rv,
                     st |-> IF phase = "Running"
                            THEN [obj[b].status EXCEPT !.clientPod = TRUE]
                            ELSE obj[b].status]]

PodEvent(b) ==
    /\ podH[b].pc = "idle"
    /\ JobExists(b)
    /\ \E e \in PodSucc(b) :
         /\ pod' = [pod EXCEPT ![b].phase = e[1], ![b].log = e[2]]
         /\ PodHandle(b, "MODIFIED", e[1])
    /\ UNCHANGED <<obj, pcs, children, nextName, lock, handled, h, jobH, job, now,
                   creates, out, hist>>
    /\ UNCHANGED svars
    /\ UNCHANGED dvars

PodEventRetry(b) ==
    /\ podH[b].pc = "retry"
    /\ PodHandle(b, podH[b].type, podH[b].phase)
    /\ UNCHANGED <<obj, pcs, children, nextName, lock, handled, h, jobH, job, pod, now,
                   creates, out, hist>>
    /\ UNCHANGED svars
    /\ UNCHANGED dvars

\* fetch_pod_log: the log of the pod, or a 404 that ends the handler.
PodEventLog(b) ==
    /\ podH[b].pc = "log"
    /\ podH' = [podH EXCEPT ![b] =
                  IF pod[b].phase = "none" THEN IdleEv
                  ELSE [podH[b] EXCEPT !.st.clientLog = pod[b].log, !.pc = "save"]]
    /\ UNCHANGED <<obj, pcs, children, nextName, lock, handled, h, jobH, job, pod, now,
                   creates, out, hist>>
    /\ UNCHANGED svars
    /\ UNCHANGED dvars

PodEventSave(b) ==
    /\ podH[b].pc = "save"
    /\ LET o == SaveOutcome(b, podH[b].rv)
       IN /\ obj' = IF o = "ok" THEN [obj EXCEPT ![b] = Stored(b, podH[b].st)] ELSE obj
          /\ hist' = IF o = "ok"
                     THEN [hist EXCEPT ![b] = Wrote(b, podH[b].rv, podH[b].st, TRUE)]
                     ELSE hist
          /\ podH' = [podH EXCEPT ![b] =
                        IF o = "conflict" THEN [podH[b] EXCEPT !.pc = "retry"]
                        ELSE IdleEv]
    /\ UNCHANGED <<pcs, children, nextName, lock, handled, h, jobH, job, pod, now,
                   creates, out>>
    /\ UNCHANGED svars
    /\ UNCHANGED dvars

\* ------------------------------------------------- events of any job phase
\* The phases a Volcano job reports (BenchmarkPhase has one member for each).
JobPhases ==
    {"Pending", "Aborting", "Aborted", "Running", "Restarting", "Completing",
     "Completed", "Terminating", "Terminated", "Failed"}

\* An event of the job that carries any phase, whatever it reported before:
\* handle_job_event takes the phase from the body as it comes.
JobAnyEvent(b) ==
    /\ jobH[b].pc = "idle"
    /\ JobExists(b)
    /\ job[b].events < MaxJobEvents
    /\ \E p \in JobPhases \ {job[b].phase} :
         /\ job' = [job EXCEPT ![b].phase = p, ![b].events = @ + 1]
         /\ JobHandle(b, "MODIFIED", p)
    /\ UNCHANGED <<obj, pcs, children, nextName, lock, handled, h, podH, pod, now,
                   creates, out, hist>>
    /\ UNCHANGED svars
    /\ UNCHANGED dvars

\* ------------------------------------------------- events after a catch-up
\* An operator that was busy or restarting sees only the last state of a job
\* that ran to completion, and of its client pod with the log it printed.
\* A job that is aborted, and a job, aborted and resumed or not, that completes.
JobEndPhases == {"Aborted", "Completed"}

JobEndEvent(b) ==
    /\ jobH[b].pc = "idle"
    /\ JobExists(b)
    /\ job[b].phase # "Completed"
    /\ \E p \in JobEndPhases \ {job[b].phase} :
         /\ job' = [job EXCEPT ![b].phase = p]
         /\ JobHandle(b, "MODIFIED", p)
    /\ UNCHANGED <<obj, pcs, children, nextName, lock, handled, h, podH, pod, now,
                   creates, out, hist>>
    /\ UNCHANGED svars
    /\ UNCHANGED dvars

JobCatchUp(b) ==
    /\ jobH[b].pc = "idle"
    /\ JobExists(b)
    /\ job[b].phase = "none"
    /\ job' = [job EXCEPT ![b].phase = "Completed"]
    /\ JobHandle(b, "MODIFIED", "Completed")
    /\ UNCHANGED <<obj, pcs, children, nextName, lock, handled, h, podH, pod, now,
                   creates, out, hist>>
    /\ UNCHANGED svars
    /\ UNCHANGED dvars

PodCatchUp(b) ==
    /\ podH[b].pc = "idle"
    /\ JobExists(b)
    /\ pod[b].phase = "none"
    /\ pod' = [pod EXCEPT ![b].phase = "Succeeded", ![b].log = obj[b].streams]
    /\ PodHandle(b, "MODIFIED", "Succeeded")
    /\ UNCHANGED <<obj, pcs, children, nextName, lock, handled, h, jobH, job, now,
                   creates, out, hist>>
    /\ UNCHANGED svars
    /\ UNCHANGED dvars

\* ------------------------------------------------------- the benchmark set
\* kubectl create of a benchmark set with the given permutations and repetitions.
UserCreateSet(product, explicit, repetitions) ==
    /\ bset.state = "absent"
    /\ Len(get_permutations([product |-> product, explicit |-> explicit])) <= NumBenchmarks
    /\ bset' = [NoSet EXCEPT
                  !.state = "present",
                  !.spec = [repetitions |-> repetitions,
                            permutations |-> [product |-> product, explicit |-> explicit]]]
    /\ UNCHANGED <<obj, pcs, children, nextName, lock, handled, h, jobH, podH, job, pod,
                   now, creates, out, hist, kids, seth, sethandled, reg>>
    /\ UNCHANGED dvars

\* kopf runs the handlers of the set one at a time.  One that returns records
\* the status.completed it was invoked with as handled; one that raises is run
\* again on the current object.
SetEnded(res) ==
    /\ seth' = [IdleSetH EXCEPT !.clock = seth.clock, !.result = res]
    /\ sethandled' = IF res = "ok"
                     THEN [created |-> TRUE, completed |-> seth.inv]
                     ELSE sethandled

\* handle_benchmark_set_created up to its save: the count, and the tallies of
\* a set that has none.
SetCreateStart ==
    /\ seth.kind = "idle"
    /\ bset.state = "present"
    /\ ~sethandled.created
    /\ seth' = [IdleSetH EXCEPT
                  !.kind = "create", !.pc = "save", !.rv = bset.rv, !.clock = seth.clock,
                  !.inv = bset.status.completed,
                  !.st = [bset.status EXCEPT
                            !.count = get_count(bset.spec.permutations),
                            !.succeeded = IF bset.status.succeeded = None THEN 0 ELSE @,
                            !.failed = IF bset.status.succeeded = None THEN 0 ELSE @]]
    /\ UNCHANGED <<obj, pcs, children, nextName, lock, handled, h, jobH, podH, job, pod,
                   now, creates, out, hist, bset, kids, sethandled, reg>>
    /\ UNCHANGED dvars

SetCreateSave ==
    /\ seth.kind = "create" /\ seth.pc = "save"
    /\ IF SetSaveOutcome(seth.rv) = "ok"
       THEN /\ bset' = SetStored(seth.st)
            /\ IF get_permutations(bset.spec.permutations) = <<>>
               THEN SetEnded("ok")
               ELSE /\ seth' = [seth EXCEPT !.pc = "apply", !.idx = 1]
                    /\ sethandled' = sethandled
       ELSE /\ bset' = bset
            /\ SetEnded("temporary")
    /\ UNCHANGED <<obj, pcs, children, nextName, lock, handled, h, jobH, podH, job, pod,
                   now, creates, out, hist, kids, reg>>
    /\ UNCHANGED dvars

\* spec.streams of a benchmark with the given spec.
StreamsOf(spec) == spec["streams"]

\* EK_CLIENT.apply_object of the benchmark of one permutation, named by its
\* index; the apply of a benchmark that is there changes nothing.
SetCreateApply ==
    /\ seth.kind = "create" /\ seth.pc = "apply"
    /\ LET permutations == get_permutations(bset.spec.permutations)
           name == seth.idx
           spec == mergeconcat(TemplateSpec, permutations[seth.idx])
       IN /\ IF Owned(name)
             THEN UNCHANGED <<kids, obj, now, handled, hist, out, job, pod>>
             ELSE /\ kids' = Append(kids, [name |-> name, spec |-> spec])
                  /\ obj' = [obj EXCEPT ![name] =
                               [state |-> "present", rv |-> 0, status |-> DefaultStatus,
                                streams |-> StreamsOf(spec)]]
                  /\ now' = [now EXCEPT ![name] = 1]
                  /\ handled' = [handled EXCEPT ![name] = "none"]
                  /\ hist' = [hist EXCEPT ![name] = NoHist]
                  /\ out' = [out EXCEPT ![name] = NoOut]
                  /\ job' = [job EXCEPT ![name] = NoJob]
                  /\ pod' = [pod EXCEPT ![name] = NoPod]
          /\ IF seth.idx = Len(permutations)
             THEN SetEnded("ok")
             ELSE /\ seth' = [seth EXCEPT !.idx = @ + 1]
                  /\ sethandled' = sethandled
    /\ UNCHANGED <<pcs, children, nextName, lock, h, jobH, podH, creates, bset, reg>>
    /\ UNCHANGED dvars

\* kopf.on.update(field = "status.completed"): due once the create handler has
\* returned and the stored map differs from the map last handled.
SetCompletedDue ==
    /\ seth.kind = "idle"
    /\ bset.state = "present"
    /\ sethandled.created
    /\ bset.status.completed # sethandled.completed

\* handle_benchmark_set_completed up to its save.
SetCompletedStart ==
    /\ SetCompletedDue
    /\ LET completed == bset.status.completed
           succeeded == Cardinality({n \in DOMAIN completed : completed[n]})
           failed == Cardinality({n \in DOMAIN completed : ~completed[n]})
           finished == (succeeded + failed) = bset.status.count
       IN seth' = [IdleSetH EXCEPT
                     !.kind = "completed", !.pc = "save", !.rv = bset.rv,
                     !.inv = completed,
                     !.clock = IF finished THEN seth.clock + 1 ELSE seth.clock,
                     !.st = [bset.status EXCEPT
                               !.succeeded = succeeded,
                               !.failed = failed,
                               !.finishedAt = IF finished THEN seth.clock ELSE @]]
    /\ UNCHANGED <<obj, pcs, children, nextName, lock, handled, h, jobH, podH, job, pod,
                   now, creates, out, hist, bset, kids, sethandled, reg>>
    /\ UNCHANGED dvars

SetCompletedSave ==
    /\ seth.kind = "completed" /\ seth.pc = "save"
    /\ IF SetSaveOutcome(seth.rv) = "ok"
       THEN /\ bset' = SetStored(seth.st)
            /\ SetEnded("ok")
       ELSE /\ bset' = bset
            /\ SetEnded("temporary")
    /\ UNCHANGED <<obj, pcs, children, nextName, lock, handled, h, jobH, podH, job, pod,
                   now, creates, out, hist, kids, reg>>
    /\ UNCHANGED dvars

\* ------------------------------------------------------- the discovery path
bvars == <<obj, pcs, children, nextName, lock, handled, h, jobH, podH, job, pod,
           now, creates, out, hist>>

\* The configmap rendered for the benchmark is applied with its all-hosts and
\* no hosts yet (once: a configmap that was deleted does not come back).
ConfigMapApplied(allHosts) ==
    /\ obj[Disc].state = "present"
    /\ cm.state = "absent"
    /\ cm' = [state |-> "present", rv |-> 1, allHosts |-> allHosts, hosts |-> <<>>,
              dirty |-> TRUE]
    /\ UNCHANGED <<pods, epH, cmH, fio>>
    /\ UNCHANGED bvars
    /\ UNCHANGED <<replay, calc>>
    /\ UNCHANGED svars

\* The configmap is deleted (teardown, garbage collection).
ConfigMapDeleted ==
    /\ cm.state = "present"
    /\ cm' = [cm EXCEPT !.state = "deleted", !.dirty = TRUE]
    /\ UNCHANGED <<pods, epH, cmH, fio>>
    /\ UNCHANGED bvars
    /\ UNCHANGED <<replay, calc>>
    /\ UNCHANGED svars

\* The job's pods come and go; they carry the benchmark's labels.
PodAdded(p) ==
    /\ obj[Disc].state = "present"
    /\ pods[p].state = "absent"
    /\ pods' = [pods EXCEPT ![p] = [state |-> "present", annotated |-> FALSE]]
    /\ UNCHANGED <<cm, epH, cmH, fio>>
    /\ UNCHANGED bvars
    /\ UNCHANGED <<replay, calc>>
    /\ UNCHANGED svars

PodRemoved(p) ==
    /\ pods[p].state = "present"
    /\ pods' = [pods EXCEPT ![p] = [state |-> "deleted", annotated |-> FALSE]]
    /\ UNCHANGED <<cm, epH, cmH, fio>>
    /\ UNCHANGED bvars
    /\ UNCHANGED <<replay, calc>>
    /\ UNCHANGED svars

\* on_benchmark_resource_event + handle_endpoints_event up to the patch: the
\* owning benchmark is fetched (404: the event is dropped), a Completed
\* benchmark and a benchmark without discovery configmap end the handler.
EndpointsEvent(type, subsets) ==
    /\ epH.pc = "idle"
    /\ epH.events < MaxEndpointsEvents
    /\ obj[Disc].state # "absent"
    /\ epH' = IF ~Fetched(Disc)
              THEN [IdleEpH EXCEPT !.events = epH.events + 1, !.last = "dropped"]
              ELSE IF obj[Disc].status.phase = "Completed" \/ cm.state # "present"
              THEN [IdleEpH EXCEPT !.events = epH.events + 1, !.last = "returned"]
              ELSE [pc |-> "patch", type |-> type, subsets |-> subsets, rv |-> cm.rv,
                    allHosts |-> cm.allHosts, events |-> epH.events + 1, last |-> ""]
    /\ UNCHANGED <<cm, pods, cmH, fio>>
    /\ UNCHANGED bvars
    /\ UNCHANGED <<replay, calc>>
    /\ UNCHANGED svars

\* The outcome of resource.patch with the resourceVersion that was read.
PatchOutcome(rv) ==
    IF cm.state # "present" THEN "notfound"
    ELSE IF rv # cm.rv THEN "conflict"
    ELSE "ok"

\* The patch of data.hosts.  A 404 is taken for a benchmark that is gone and
\* the event is dropped; a 409 is an ApiError that is raised, not retried.
EndpointsPatch ==
    /\ epH.pc = "patch"
    /\ LET o == PatchOutcome(epH.rv)
           hosts == HostsData(Expected(epH.allHosts),
                              Ips(epH.type, epH.subsets, EndpointsName))
       IN /\ cm' = IF o = "ok"
                   THEN [cm EXCEPT !.hosts = hosts,
                                   !.rv = IF hosts = cm.hosts THEN @ ELSE @ + 1,
                                   !.dirty = @ \/ hosts # cm.hosts]
                   ELSE cm
          /\ epH' = [epH EXCEPT !.pc = "idle",
                                !.last = CASE o = "ok" -> "returned"
                                           [] o = "notfound" -> "dropped"
                                           [] OTHER -> "raised"]
    /\ UNCHANGED <<pods, cmH, fio>>
    /\ UNCHANGED bvars
    /\ UNCHANGED <<replay, calc>>
    /\ UNCHANGED svars

\* resource.list(labels): the pods of the benchmark, by name.
PodOrder == <<"w0", "w1">>
PodListing == SelectSeq(PodOrder, LAMBDA p : pods[p].state = "present")

\* on_benchmark_resource_event + handle_discovery_configmap_event up to the
\* listing of the pods: the event carries the configmap as it is now.
ConfigMapEvent ==
    /\ cmH.pc = "idle"
    /\ cm.dirty
    /\ cm' = [cm EXCEPT !.dirty = FALSE]
    /\ cmH' = IF ~Fetched(Disc)
              THEN [IdleCmH EXCEPT !.last = "dropped"]
              ELSE IF \/ cm.state = "deleted"
                      \/ obj[Disc].status.phase = "Completed"
                      \/ cm.hosts = <<>>
                      \/ PodListing = <<>>
              THEN [IdleCmH EXCEPT !.last = "returned"]
              ELSE [pc |-> "patch", listed |-> PodListing, todo |-> PodListing,
                    hosts |-> cm.hosts, last |-> ""]
    /\ UNCHANGED <<pods, epH, fio>>
    /\ UNCHANGED bvars
    /\ UNCHANGED <<replay, calc>>
    /\ UNCHANGED svars

\* One turn of the loop over the pods: the patch is built, which reads
\* settings.hosts_available_annotation, and sent.
ConfigMapPatch ==
    /\ cmH.pc = "patch"
    /\ LET p == Head(cmH.todo)
       IN IF ~HasSetting("hosts_available_annotation")
          THEN /\ cmH' = [cmH EXCEPT !.pc = "idle", !.last = "raised"]
               /\ pods' = pods
          ELSE IF pods[p].state # "present"
          THEN /\ cmH' = [cmH EXCEPT !.pc = "idle", !.last = "dropped"]
               /\ pods' = pods
          ELSE /\ pods' = [pods EXCEPT ![p].annotated = TRUE]
               /\ cmH' = IF Tail(cmH.todo) = <<>>
                         THEN [cmH EXCEPT !.pc = "idle", !.last = "returned"]
                         ELSE [cmH EXCEPT !.todo = Tail(@)]
    /\ UNCHANGED <<cm, epH, fio>>
    /\ UNCHANGED bvars
    /\ UNCHANGED <<replay, calc>>
    /\ UNCHANGED svars

\* ------------------------------------------------------ the fio benchmark
\* kubectl create of a fio benchmark.
FioUserCreate(spec) ==
    /\ fio.pc = "none"
    /\ fio' = [fio EXCEPT !.pc = "check", !.spec = spec]
    /\ UNCHANGED <<cm, pods, epH, cmH>>
    /\ UNCHANGED bvars
    /\ UNCHANGED <<replay, calc>>
    /\ UNCHANGED svars

\* An API call of the handler fails with another error than AlreadyExists:
\* the handler raises and kopf runs it again from the start.
FioApiError ==
    /\ fio.pc \in {"configmap", "pvc", "job"}
    /\ fio.retries < MaxFioRetries
    /\ fio' = [fio EXCEPT !.pc = "check", !.retries = @ + 1, !.result = "error"]
    /\ UNCHANGED <<cm, pods, epH, cmH>>
    /\ UNCHANGED bvars
    /\ UNCHANGED <<replay, calc>>
    /\ UNCHANGED svars

\* on_create: one of volumeClaimName or volumeClaimTemplate is required.
FioCheck ==
    /\ fio.pc = "check"
    /\ fio' = IF NoClaimName(fio.spec) /\ NoClaimTemplate(fio.spec)
              THEN [fio EXCEPT !.pc = "done", !.result = "permanent"]
              ELSE [fio EXCEPT !.pc = "configmap"]
    /\ UNCHANGED <<cm, pods, epH, cmH>>
    /\ UNCHANGED bvars
    /\ UNCHANGED <<replay, calc>>
    /\ UNCHANGED svars

\* create_namespaced_config_map under suppress_already_exists.
FioConfigMap ==
    /\ fio.pc = "configmap"
    /\ fio' = [fio EXCEPT !.configmap = TRUE, !.pc = "pvc"]
    /\ UNCHANGED <<cm, pods, epH, cmH>>
    /\ UNCHANGED bvars
    /\ UNCHANGED <<replay, calc>>
    /\ UNCHANGED svars

\* The PVC of the template, unless a claim name is given; one that exists is
\* left as it is.
FioClaim ==
    /\ fio.pc = "pvc"
    /\ fio' = IF ManagedClaim(fio.spec) /\ fio.pvc = ""
              THEN [fio EXCEPT !.pvc = ScratchClaim, !.accessMode = AccessMode(fio.spec),
                               !.pc = "job"]
              ELSE [fio EXCEPT !.pc = "job"]
    /\ UNCHANGED <<cm, pods, epH, cmH>>
    /\ UNCHANGED bvars
    /\ UNCHANGED <<replay, calc>>
    /\ UNCHANGED svars

\* The job on pvc_name, then the patch of status.phase that kopf applies when
\* the handler returns.
FioJob ==
    /\ fio.pc = "job"
    /\ fio' = [fio EXCEPT !.job = IF fio.job # "" THEN fio.job
                                  ELSE IF ManagedClaim(fio.spec) THEN ScratchClaim
                                  ELSE fio.spec.volumeClaimName,
                          !.phase = "Pending", !.pc = "done", !.result = "ok"]
    /\ UNCHANGED <<cm, pods, epH, cmH>>
    /\ UNCHANGED bvars
    /\ UNCHANGED <<replay, calc>>
    /\ UNCHANGED svars

\* kubectl delete of the benchmark set, once its create handler has returned;
\* its benchmarks are still there until they are garbage collected.
UserDeleteSet ==
    /\ bset.state = "present"
    /\ seth.kind = "idle"
    /\ sethandled.created
    /\ bset' = [bset EXCEPT !.state = "gone"]
    /\ UNCHANGED <<kids, seth, sethandled, reg>>
    /\ UNCHANGED bvars
    /\ UNCHANGED dvars

\* ------------------------------------------------------------- summarise
\* What summarise does: it returns ("ok") or raises the exception named.
\* The logs of an iperf client: none captured, no header line, a header and no
\* result row, and the logs of one, two and three streams.
IPerfTexts ==
    { <<>>, <<Junk, Junk>>, <<Junk, Hdr>>, Logs[1], Logs[2], Logs[3] }

\* IPerf.summarise on the text of a log.
IPerfSummarise(lines, streams) ==
    IF lines = <<>> THEN "PodResultsIncompleteError"
    ELSE LET rest == DropToHeader(lines)
         IN IF rest = <<>> THEN "StopIteration"
            ELSE LET ids == RowIds(Tail(rest))
                     stream_results == ids \ {"SUM"}
                 IN IF \/ Cardinality(stream_results) # streams
                       \/ (streams > 1 /\ "SUM" \notin ids)
                    THEN "PodLogFormatError"
                    ELSE "ok"

\* The logs of a fio master: text is "" (none captured), "text" (no JSON),
\* "list" (JSON, not an object) or "object"; stats is the value of the key
\* client_stats, a list of entries of which each has a jobname and has the
\* read and write sections or not; keyed says whether the key is there.
FioEntry(jobname, full) == [jobname |-> jobname, full |-> full]

FioTexts ==
    { [text |-> "", keyed |-> FALSE, stats |-> <<>>],
      [text |-> "text", keyed |-> FALSE, stats |-> <<>>],
      [text |-> "list", keyed |-> FALSE, stats |-> <<>>],
      [text |-> "object", keyed |-> FALSE, stats |-> <<>>],
      [text |-> "object", keyed |-> TRUE, stats |-> <<>>],
      [text |-> "object", keyed |-> TRUE, stats |-> <<FioEntry("job", TRUE)>>],
      [text |-> "object", keyed |-> TRUE, stats |-> <<FioEntry("job", FALSE)>>],
      [text |-> "object", keyed |-> TRUE,
       stats |-> <<FioEntry("job", TRUE), FioEntry("job", TRUE)>>],
      [text |-> "object", keyed |-> TRUE,
       stats |-> <<FioEntry("job", TRUE), FioEntry("All clients", TRUE)>>],
      [text |-> "object", keyed |-> TRUE,
       stats |-> <<FioEntry("job", TRUE), FioEntry("All clients", FALSE)>>] }

\* Fio.summarise on a log.
FioSummarise(log) ==
    IF log.text = "" THEN "PodResultsIncompleteError"
    ELSE IF log.text = "text" THEN "PodLogFormatError"
    ELSE IF log.text = "list" THEN "TypeError"
    ELSE IF ~log.keyed THEN "KeyError"
    ELSE LET all == SelectSeq(log.stats, LAMBDA e : e.jobname = "All clients")
         IN IF Len(log.stats) # 1 /\ all = <<>> THEN "IndexError"
            ELSE LET aggregate_data == IF Len(log.stats) = 1 THEN log.stats[1] ELSE all[1]
                 IN IF aggregate_data.full THEN "ok" ELSE "KeyError"

\* The logs of a PyTorch pod: for each of the lines summarise searches, the
\* units it prints ("": the line is not there); gnu is what the output of
\* GNU time looks like ("": not there, "bad": a wall time that does not parse).
Units == {"", "milliseconds", "seconds"}
Sizes == {"", "GB", "MB"}

PyTorchTexts ==
    {[captured |-> FALSE, cpu_time |-> "", cpu_mem |-> "", gpu_time |-> "",
      gpu_mem |-> "", gnu |-> ""]}
    \cup [captured : {TRUE}, cpu_time : Units, cpu_mem : Sizes, gpu_time : Units,
          gpu_mem : Sizes, gnu : {"", "bad", "ok"}]

\* PyTorch.summarise on a log, for spec.device.
PyTorchSummarise(log, device) ==
    IF ~log.captured THEN "PodResultsIncompleteError"
    ELSE IF log.cpu_time = "" \/ log.cpu_mem = "" THEN "AttributeError"
    ELSE IF log.cpu_time # "milliseconds" \/ log.cpu_mem # "GB" THEN "PodLogFormatError"
    ELSE IF device # "cpu" /\ (log.gpu_time = "" \/ log.gpu_mem = "") THEN "AttributeError"
    ELSE IF device # "cpu" /\ (log.gpu_time # "milliseconds" \/ log.gpu_mem # "GB")
    THEN "PodLogFormatError"
    ELSE IF log.gnu # "ok" THEN "PodLogFormatError"
    ELSE "ok"

\* A benchmark of a kind with the log stored in its status, spec.streams of
\* an iperf benchmark and spec.device of a PyTorch benchmark.
Summarised ==
    [kind : {"iperf"}, log : IPerfTexts, streams : Streams, device : {""}]
    \cup [kind : {"fio"}, log : FioTexts, streams : {0}, device : {""}]
    \cup [kind : {"pytorch"}, log : PyTorchTexts, streams : {0}, device : {"cpu", "cuda"}]

\* benchmark.summarise() of the kind of the benchmark.
SummariseOf(bm) ==
    CASE bm.kind = "iperf" -> IPerfSummarise(bm.log, bm.streams)
      [] bm.kind = "fio" -> FioSummarise(bm.log)
      [] bm.kind = "pytorch" -> PyTorchSummarise(bm.log, bm.device)

SummariseCall ==
    /\ calc.fn = "summarise" /\ calc.out = ""
    /\ calc' = [calc EXCEPT !.out = SummariseOf(calc.arg)]
    /\ UNCHANGED bvars
    /\ UNCHANGED svars
    /\ UNCHANGED <<cm, pods, epH, cmH, fio, replay>>

\* --------------------------------------------- the names of a set's benchmarks
\* str(n) of a non-negative int, as the sequence of its decimal digits.
RECURSIVE Str(_)
Str(n) == IF n < 10 THEN <<n>> ELSE Str(n \div 10) \o <<n % 10>>

\* str.zfill(width): zeros on the left up to the width, nothing cut off.
RECURSIVE Zfill(_, _)
Zfill(digits, width) ==
    IF Len(digits) >= width THEN digits ELSE Zfill(<<0>> \o digits, width)

\* math.floor(math.log(count, 10)) for count >= 1 (the float quotient is exact
\* for the counts used here).
RECURSIVE FloorLog10(_)
FloorLog10(count) == IF count < 10 THEN 0 ELSE 1 + FloorLog10(count \div 10)

\* The width with the logarithm rounded up.
padding_width_Ceil(count) ==
    IF count = 1 THEN 1
    ELSE FloorLog10(count - 1) + 2

\* padding_width of handle_benchmark_set_created.
padding_width(count) == FloorLog10(count) + 1

\* The part of metadata.name after "<set name>-" for each permutation that
\* get_permutations yields, in the order of the loop.
ChildNames(perms) ==
    LET count == get_count(perms)
    IN [idx \in 1..Len(get_permutations(perms)) |-> Zfill(Str(idx), padding_width(count))]

\* The permutations of a set with up to a dozen benchmarks: a product over
\* one or two keys and an explicit list.
MaxValues == 11
MaxExplicit == 10
ValueList(n) == [i \in 1..n |-> i]

NamedPermutations ==
    [ product : {<<>>, << <<"duration", ValueList(2)>>, <<"streams", ValueList(5)>> >>,
                 << <<"duration", ValueList(3)>>, <<"streams", ValueList(3)>> >>}
                \cup {<< <<"streams", ValueList(n)>> >> : n \in 0..MaxValues},
      explicit : {[i \in 1..n |-> [streams |-> 1]] : n \in 0..MaxExplicit} ]

NamesCall ==
    /\ calc.fn = "names" /\ calc.out = <<>>
    /\ calc' = [calc EXCEPT !.out = ChildNames(calc.arg)]
    /\ UNCHANGED bvars
    /\ UNCHANGED svars
    /\ UNCHANGED <<cm, pods, epH, cmH, fio, replay>>

\* ------------------------------------------------------- utils.mergeconcat
\* A value of a spec with its Python type: a dict (a function from its keys),
\* a list, an int or None.
DictOf(f) == [t |-> "dict", v |-> f]
ListOf(q) == [t |-> "list", v |-> q]
IntOf(n) == [t |-> "int", v |-> <<n>>]
NoneValue == [t |-> "none", v |-> <<>>]

\* A shallow merge: a key of both dicts gets the value of the overrides.
mergeconcat2_Shallow(defaults, overrides) ==
    IF defaults.t = "dict" /\ overrides.t = "dict"
    THEN DictOf([k \in DOMAIN defaults.v \cup DOMAIN overrides.v |->
                    IF k \in DOMAIN overrides.v THEN overrides.v[k] ELSE defaults.v[k]])
    ELSE IF overrides.t # "none" THEN overrides ELSE defaults

\* mergeconcat2, the function mergeconcat folds over its overrides.
RECURSIVE mergeconcat2(_, _)
mergeconcat2(defaults, overrides) ==
    IF defaults.t = "dict" /\ overrides.t = "dict"
    THEN DictOf([k \in DOMAIN defaults.v \cup DOMAIN overrides.v |->
                    IF k \notin DOMAIN overrides.v THEN defaults.v[k]
                    ELSE IF k \in DOMAIN defaults.v
                    THEN mergeconcat2(defaults.v[k], overrides.v[k])
                    ELSE overrides.v[k]])
    ELSE IF defaults.t = "list" /\ overrides.t = "list"
    THEN ListOf(defaults.v \o overrides.v)
    ELSE IF overrides.t # "none" THEN overrides ELSE defaults

\* The dicts over a set of keys with values of a set.
Dicts(keys, values) == UNION {[ks -> values] : ks \in SUBSET keys}

\* The values of a key of a template spec or of a permutation: ints, None,
\* lists, and dicts of those under one key.
Leaves == {IntOf(1), IntOf(2), NoneValue, ListOf(<<IntOf(1)>>), ListOf(<<IntOf(2), IntOf(1)>>)}
Nested == Leaves \cup {DictOf(f) : f \in Dicts({"c"}, Leaves)}

\* spec.template.spec and a permutation: dicts over two keys.
Mergeable == {DictOf(f) : f \in Dicts({"a", "b"}, Nested)}

\* "spec": utils.mergeconcat(benchmark_set.spec.template.spec, permutation)
MergeCall ==
    /\ calc.fn = "mergeconcat" /\ calc.out = NoneValue
    /\ calc' = [calc EXCEPT !.out = mergeconcat2(calc.arg[1], calc.arg[2])]
    /\ UNCHANGED bvars
    /\ UNCHANGED svars
    /\ UNCHANGED <<cm, pods, epH, cmH, fio, replay>>

\* ------------------------------------------------- pod_modified of each kind
\* The kinds whose status keeps a raw pod log, and the pods of their job with
\* the component label of each.
LogKinds == {"IPerf", "RDMABandwidth", "Fio", "MPIPingPong"}

KindPods(kind) ==
    IF kind \in {"IPerf", "RDMABandwidth"} THEN {"client", "server"}
    ELSE {"master", "worker-0", "worker-1"}

Component(name) == IF name \in {"worker-0", "worker-1"} THEN "worker" ELSE name

\* The status fields pod_modified writes: the pods recorded as running (by
\* component for client, server and master, by name for workers) and the raw
\* log, named by the pod it was fetched from ("" is None).
NoPodStatus == [infos |-> {}, log |-> ""]

\* RDMABenchmark.pod_modified with the component test only on Running.
RdmaPodModified_AnySucceeded(status, name, pod_phase) ==
    IF pod_phase = "Running" THEN [status EXCEPT !.infos = @ \cup {Component(name)}]
    ELSE IF pod_phase = "Succeeded" THEN [status EXCEPT !.log = name]
    ELSE status

\* RDMABenchmark.pod_modified
RdmaPodModified(status, name, pod_phase) ==
    IF pod_phase = "Running" THEN [status EXCEPT !.infos = @ \cup {Component(name)}]
    ELSE IF Component(name) = "client" /\ pod_phase = "Succeeded"
    THEN [status EXCEPT !.log = name]
    ELSE status

\* IPerf.pod_modified
IPerfPodModified(status, name, pod_phase) ==
    IF pod_phase = "Running" THEN [status EXCEPT !.infos = @ \cup {Component(name)}]
    ELSE IF pod_phase = "Succeeded" THEN [status EXCEPT !.log = name]
    ELSE status

\* Fio.pod_modified
FioPodModified(status, name, pod_phase) ==
    IF pod_phase = "Running"
    THEN IF Component(name) = "master"
         THEN [status EXCEPT !.infos = @ \cup {"master"}]
         ELSE [status EXCEPT !.infos = @ \cup {name}]
    ELSE IF pod_phase = "Succeeded" THEN [status EXCEPT !.log = name]
    ELSE status

\* MPIPingPong.pod_modified
PingPongPodModified(status, name, pod_phase) ==
    IF Component(name) = "master"
    THEN IF pod_phase = "Running" THEN [status EXCEPT !.infos = @ \cup {"master"}]
         ELSE IF pod_phase = "Succeeded" THEN [status EXCEPT !.log = name]
         ELSE status
    ELSE IF pod_phase = "Running" THEN [status EXCEPT !.infos = @ \cup {name}]
    ELSE status

PodModified(kind, status, name, pod_phase) ==
    CASE kind = "IPerf" -> IPerfPodModified(status, name, pod_phase)
      [] kind = "RDMABandwidth" -> RdmaPodModified(status, name, pod_phase)
      [] kind = "Fio" -> FioPodModified(status, name, pod_phase)
      [] kind = "MPIPingPong" -> PingPongPodModified(status, name, pod_phase)

\* handle_pod_event for an event of a pod of the benchmark, the log fetched
\* being the log of the pod of the event; last is the event, kept for the
\* properties.
HandlePodEvent(type, name, pod_phase) ==
    LET s == calc.out
    IN IF type = "DELETED" \/ s.phase = "Completed"
       THEN [s EXCEPT !.last = <<type, name, pod_phase>>]
       ELSE [s EXCEPT !.status = PodModified(calc.arg[1], s.status, name, pod_phase),
                      !.last = <<type, name, pod_phase>>]

PodsFrame ==
    /\ UNCHANGED bvars
    /\ UNCHANGED svars
    /\ UNCHANGED <<cm, pods, epH, cmH, fio, replay>>

\* A pod of the job starts running.
PodRuns ==
    /\ calc.fn = "pod_modified"
    /\ \E name \in KindPods(calc.arg[1]) :
         /\ calc.out.pods[name] = "Pending"
         /\ calc' = [calc EXCEPT !.out = [HandlePodEvent("MODIFIED", name, "Running")
                                            EXCEPT !.pods[name] = "Running"]]
    /\ PodsFrame

\* A running pod of the job ends, its containers having exited with 0 or not.
PodEnds ==
    /\ calc.fn = "pod_modified"
    /\ \E name \in KindPods(calc.arg[1]), pod_phase \in {"Succeeded", "Failed"} :
         /\ calc.out.pods[name] = "Running"
         /\ calc' = [calc EXCEPT !.out = [HandlePodEvent("MODIFIED", name, pod_phase)
                                            EXCEPT !.pods[name] = pod_phase]]
    /\ PodsFrame

\* A pod of the job is deleted, in the phase it had.
PodDeleted ==
    /\ calc.fn = "pod_modified"
    /\ \E name \in KindPods(calc.arg[1]) :
         /\ calc.out.pods[name] \in {"Running", "Succeeded", "Failed"}
         /\ calc' = [calc EXCEPT !.out = [HandlePodEvent("DELETED", name, calc.out.pods[name])
                                            EXCEPT !.pods[name] = "Deleted"]]
    /\ PodsFrame

\* The benchmark moves on: Running, Summarising once a pod has succeeded, Completed.
BenchmarkMovesOn ==
    /\ calc.fn = "pod_modified"
    /\ \/ /\ calc.out.phase = "Running"
          /\ \E name \in KindPods(calc.arg[1]) : calc.out.pods[name] = "Succeeded"
          /\ calc' = [calc EXCEPT !.out.phase = "Summarising", !.out.last = <<"", "", "">>]
       \/ /\ calc.out.phase = "Summarising"
          /\ calc' = [calc EXCEPT !.out.phase = "Completed", !.out.last = <<"", "", "">>]
    /\ PodsFrame

\* ------------------------------------------------------ a run and its replay
\* No handler of the benchmark is running and none is due.
Quiet(b) ==
    /\ h[b].kind = "idle" /\ jobH[b].pc = "idle" /\ podH[b].pc = "idle"
    /\ obj[b].state = "present"
    /\ handled[b] = obj[b].status.phase

\* The next event of the stream reaches its handler.  In the run the job must
\* exist to report its state, and its DELETED event follows its deletion; in
\* the replay the events come as they were.
StreamEvent ==
    /\ replay.pos < Len(replay.stream)
    /\ LET e == replay.stream[replay.pos + 1]
       IN /\ replay.pass = 1 =>
                IF e.type = "DELETED" THEN job[1].deleted ELSE JobExists(1)
          /\ IF e.of = "job"
             THEN /\ jobH[1].pc = "idle"
                  /\ job' = [job EXCEPT ![1].phase = e.phase,
                                        ![1].deleted = @ /\ e.type # "DELETED"]
                  /\ JobHandle(1, e.type, e.phase)
                  /\ UNCHANGED <<pod, podH>>
             ELSE /\ podH[1].pc = "idle"
                  /\ pod' = [pod EXCEPT ![1].phase = e.phase, ![1].log = e.log]
                  /\ PodHandle(1, e.type, e.phase)
                  /\ UNCHANGED <<job, jobH>>
    /\ replay' = [replay EXCEPT !.pos = @ + 1]
    /\ UNCHANGED <<obj, pcs, children, nextName, lock, handled, h, now, creates, out,
                   hist>>
    /\ UNCHANGED svars
    /\ UNCHANGED <<cm, pods, epH, cmH, fio, calc>>

\* The status stored now, which save_benchmark_status has saved, is kept as
\* the status to replay from (one per run).
SavedStatus ==
    /\ replay.pass = 1
    /\ replay.from = DefaultStatus
    /\ obj[1].state = "present"
    /\ obj[1].status # DefaultStatus
    /\ replay' = [replay EXCEPT !.from = obj[1].status]
    /\ UNCHANGED bvars
    /\ UNCHANGED svars
    /\ UNCHANGED <<cm, pods, epH, cmH, fio, calc>>

\* The run has ended in a terminal phase with every event handled: the status
\* is put back to the saved one and the stream starts again.
ReplayStart ==
    /\ replay.pass = 1
    /\ replay.from # DefaultStatus
    /\ replay.pos = Len(replay.stream)
    /\ Quiet(1)
    /\ obj[1].status.phase \in TerminalPhases
    /\ replay' = [replay EXCEPT !.pass = 2, !.pos = 0, !.terminal = obj[1].status]
    /\ obj' = [obj EXCEPT ![1] = Stored(1, replay.from)]
    /\ UNCHANGED <<pcs, children, nextName, lock, handled, h, jobH, podH, job, pod, now,
                   creates, out, hist>>
    /\ UNCHANGED svars
    /\ UNCHANGED <<cm, pods, epH, cmH, fio, calc>>

\* ------------------------------------------------------------ specification
Reconcile(b) ==
    \/ CreateStart(b) \/ CreateAck(b) \/ CreateList(b) \/ CreateMakePC(b)
    \/ CreateApply(b) \/ CreateSave(b)
    \/ StatusTerminal(b) \/ StatusRunning(b) \/ StatusSummarising(b)
    \/ StatusOther(b) \/ StatusSave(b) \/ StatusSumSave(b) \/ StatusDel(b)
    \/ StatusDelPC(b) \/ StatusCompSave(b)

Correlate(b) ==
    \/ JobEvent(b) \/ JobDeletedEvent(b) \/ JobEventRetry(b) \/ JobEventSave(b)
    \/ PodEvent(b) \/ PodEventRetry(b) \/ PodEventLog(b) \/ PodEventSave(b)

\* One benchmark from its creation to a terminal phase.
Next ==
    \/ \E s \in Streams : UserCreate(1, s)
    \/ Reconcile(1)
    \/ Correlate(1)

Spec == Init /\ [][Next]_vars

\* One benchmark whose job reports its phases in any order; no pod log is
\* captured, so a Summarising benchmark waits for its results.
NextJob ==
    \/ creates = 0 /\ UserCreate(1, 1)
    \/ CreateStart(1) \/ CreateAck(1) \/ CreateList(1) \/ CreateMakePC(1)
    \/ CreateApply(1) \/ CreateSave(1)
    \/ StatusTerminal(1) \/ StatusRunning(1) \/ StatusSummarising(1)
    \/ StatusOther(1) \/ StatusSave(1)
    \/ JobAnyEvent(1) \/ JobEventRetry(1) \/ JobEventSave(1)

SpecJob == Init /\ [][NextJob]_vars

\* One benchmark, created once, that the user may delete while it is Preparing.
NextDel ==
    \/ creates = 0 /\ \E s \in Streams : UserCreate(1, s)
    \/ Reconcile(1)
    \/ obj[1].status.phase = "Preparing" /\ UserDelete(1)
    \/ DeleteStart(1) \/ DeleteDel(1) \/ DeleteDelPC(1) \/ CollectChildren(1)
    \/ Correlate(1)

SpecDel == Init /\ [][NextDel]_vars

\* Several benchmarks created, completed, deleted and created again.  Each job
\* is seen by the operator once it has completed, and an event handler runs
\* between two handlers of its benchmark, from its fetch to its save; the
\* handlers of different benchmarks interleave freely.
EvBusy(b) == jobH[b].pc # "idle" \/ podH[b].pc # "idle"

EvStart(b) == ~EvBusy(b) /\ h[b].kind = "idle"

NextPrio ==
    \E b \in Concurrent :
        \/ ~EvBusy(b) /\ UserCreate(b, 1)
        \/ ~EvBusy(b) /\ CreateStart(b)
        \/ ~EvBusy(b) /\ CreateAck(b)
        \/ ~EvBusy(b) /\ CreateList(b)
        \/ ~EvBusy(b) /\ CreateMakePC(b)
        \/ ~EvBusy(b) /\ CreateApply(b)
        \/ ~EvBusy(b) /\ CreateSave(b)
        \/ ~EvBusy(b) /\ StatusTerminal(b)
        \/ ~EvBusy(b) /\ StatusSummarising(b)
        \/ ~EvBusy(b) /\ StatusSave(b)
        \/ ~EvBusy(b) /\ StatusSumSave(b)
        \/ ~EvBusy(b) /\ StatusDel(b)
        \/ ~EvBusy(b) /\ StatusDelPC(b)
        \/ ~EvBusy(b) /\ StatusCompSave(b)
        \/ ~EvBusy(b) /\ UserDelete(b)
        \/ ~EvBusy(b) /\ DeleteStart(b)
        \/ ~EvBusy(b) /\ DeleteDel(b)
        \/ ~EvBusy(b) /\ DeleteDelPC(b)
        \/ ~EvBusy(b) /\ CollectChildren(b)
        \/ EvStart(b) /\ JobCatchUp(b)
        \/ EvStart(b) /\ PodCatchUp(b)
        \/ EvStart(b) /\ JobDeletedEvent(b)
        \/ JobEventSave(b)
        \/ PodEventLog(b)
        \/ PodEventSave(b)

SpecPrio == Init /\ [][NextPrio]_vars

\* The allocator alone: benchmarks are created, and deleted once their create
\* handler has returned, in any order; their handlers interleave freely and no
\* job reports, so every benchmark stays Preparing.
NextAlloc ==
    \E b \in Benchmarks :
        \/ UserCreate(b, 1)
        \/ CreateStart(b)
        \/ CreateAck(b)
        \/ CreateList(b)
        \/ CreateMakePC(b)
        \/ CreateApply(b)
        \/ CreateSave(b)
        \/ StatusOther(b)
        \/ handled[b] # "none" /\ UserDelete(b)
        \/ DeleteStart(b)
        \/ DeleteDel(b)
        \/ DeleteDelPC(b)

SpecAlloc == Init /\ [][NextAlloc]_vars

\* A benchmark set is created, with any of the permutations and repetitions,
\* and its create handler runs; the benchmarks it applies are left alone.
NextSetCreate ==
    \/ \E product \in Products, explicit \in Explicits, repetitions \in Repetitions :
         UserCreateSet(product, explicit, repetitions)
    \/ SetCreateStart
    \/ SetCreateSave
    \/ SetCreateApply

SpecSetCreate == Init /\ [][NextSetCreate]_vars

\* A benchmark set and its benchmarks: each one's job is aborted, completes, or
\* both in turn, and the set's handlers tally what the benchmarks register.  An
\* event handler runs between two handlers of its benchmark, from its fetch to
\* its save; the handlers of different benchmarks and of the set interleave
\* freely.
SetPermutations ==
    { [product |-> <<>>, explicit |-> <<>>],
      [product |-> << <<"streams", <<1, 2>>>> >>, explicit |-> <<>>],
      [product |-> <<>>, explicit |-> <<[streams |-> 2]>>] }

NextSet ==
    \/ \E p \in SetPermutations : UserCreateSet(p.product, p.explicit, 1)
    \/ SetCreateStart
    \/ SetCreateSave
    \/ SetCreateApply
    \/ SetCompletedStart
    \/ SetCompletedSave
    \/ \E b \in Benchmarks :
        \/ ~EvBusy(b) /\ CreateStart(b)
        \/ ~EvBusy(b) /\ CreateAck(b)
        \/ ~EvBusy(b) /\ CreateList(b)
        \/ ~EvBusy(b) /\ CreateMakePC(b)
        \/ ~EvBusy(b) /\ CreateApply(b)
        \/ ~EvBusy(b) /\ CreateSave(b)
        \/ ~EvBusy(b) /\ StatusTerminal(b)
        \/ ~EvBusy(b) /\ StatusSummarising(b)
        \/ ~EvBusy(b) /\ StatusSave(b)
        \/ ~EvBusy(b) /\ StatusRegFetch(b)
        \/ ~EvBusy(b) /\ StatusRegSave(b)
        \/ ~EvBusy(b) /\ StatusSumSave(b)
        \/ ~EvBusy(b) /\ StatusDel(b)
        \/ ~EvBusy(b) /\ StatusDelPC(b)
        \/ ~EvBusy(b) /\ StatusCompSave(b)
        \/ EvStart(b) /\ JobEndEvent(b)
        \/ EvStart(b) /\ PodCatchUp(b)
        \/ JobEventSave(b)
        \/ PodEventLog(b)
        \/ PodEventSave(b)

SpecSet == Init /\ [][NextSet]_vars

\* The discovery path of one benchmark, from its creation to Completed or to
\* its deletion: the configmap is applied with any all-hosts, pods come and
\* go, endpoints events carry any of the bodies.  The benchmark runs its
\* handlers before anything of the discovery path is there; the configmap
\* and the pods change, and events are delivered, between two handlers of
\* the benchmark, also while a discovery handler is running; a benchmark
\* that is Preparing may be deleted at any time.
DiscIdle == epH.pc = "idle" /\ cmH.pc = "idle"
Pristine ==
    /\ cm.state = "absent" /\ epH = IdleEpH /\ cmH = IdleCmH
    /\ \A p \in PodNames : pods[p].state = "absent"

NextDisc ==
    \/ Pristine /\ creates = 0 /\ UserCreate(Disc, 1)
    \/ Pristine /\ ~EvBusy(Disc) /\ CreateStart(Disc)
    \/ Pristine /\ ~EvBusy(Disc) /\ CreateAck(Disc)
    \/ Pristine /\ ~EvBusy(Disc) /\ CreateList(Disc)
    \/ Pristine /\ ~EvBusy(Disc) /\ CreateMakePC(Disc)
    \/ Pristine /\ ~EvBusy(Disc) /\ CreateApply(Disc)
    \/ Pristine /\ ~EvBusy(Disc) /\ CreateSave(Disc)
    \/ Pristine /\ ~EvBusy(Disc) /\ StatusTerminal(Disc)
    \/ Pristine /\ ~EvBusy(Disc) /\ StatusSummarising(Disc)
    \/ Pristine /\ ~EvBusy(Disc) /\ StatusSave(Disc)
    \/ Pristine /\ ~EvBusy(Disc) /\ StatusSumSave(Disc)
    \/ Pristine /\ ~EvBusy(Disc) /\ StatusDel(Disc)
    \/ Pristine /\ ~EvBusy(Disc) /\ StatusDelPC(Disc)
    \/ Pristine /\ ~EvBusy(Disc) /\ StatusCompSave(Disc)
    \/ Pristine /\ EvStart(Disc) /\ JobCatchUp(Disc)
    \/ Pristine /\ EvStart(Disc) /\ PodCatchUp(Disc)
    \/ Pristine /\ JobEventSave(Disc)
    \/ Pristine /\ PodEventLog(Disc)
    \/ Pristine /\ PodEventSave(Disc)
    \/ DiscIdle /\ EvStart(Disc) /\ obj[Disc].status.phase = "Preparing"
         /\ UserDelete(Disc)
    \/ DiscIdle /\ DeleteStart(Disc)
    \/ DiscIdle /\ DeleteDel(Disc)
    \/ DiscIdle /\ DeleteDelPC(Disc)
    \/ DiscIdle /\ JobDeletedEvent(Disc)
    \/ \E allHosts \in AllHostsTexts : EvStart(Disc) /\ ConfigMapApplied(allHosts)
    \/ EvStart(Disc) /\ ConfigMapDeleted
    \/ \E p \in PodNames : EvStart(Disc) /\ PodAdded(p)
    \/ \E p \in PodNames : EvStart(Disc) /\ PodRemoved(p)
    \/ \E type \in EventTypes, subsets \in EndpointsBodies :
         EvStart(Disc) /\ EndpointsEvent(type, subsets)
    \/ EndpointsPatch
    \/ EvStart(Disc) /\ ConfigMapEvent
    \/ ConfigMapPatch

SpecDisc == Init /\ [][NextDisc]_vars

\* A fio benchmark with any spec is created and its create handler runs.
NextFio ==
    \/ \E spec \in FioSpecs : FioUserCreate(spec)
    \/ FioApiError
    \/ FioCheck
    \/ FioConfigMap
    \/ FioClaim
    \/ FioJob

SpecFio == Init /\ [][NextFio]_vars


\* A benchmark set and its benchmarks as in SpecSet, where the set may be
\* deleted while its benchmarks go on.
NextReg ==
    \/ NextSet
    \/ UserDeleteSet

SpecReg == Init /\ [][NextReg]_vars

\* One benchmark from its creation to a terminal phase, where an event handler
\* that can take a step of its retry loop eventually takes it.
NextRetry ==
    \/ creates = 0 /\ UserCreate(1, 1)
    \/ Reconcile(1)
    \/ Correlate(1)

SpecRetry ==
    /\ Init /\ [][NextRetry]_vars
    /\ WF_vars(JobEventSave(1)) /\ WF_vars(JobEventRetry(1))
    /\ WF_vars(PodEventSave(1)) /\ WF_vars(PodEventRetry(1)) /\ WF_vars(PodEventLog(1))

\* One benchmark through one of the event streams, then again through the same
\* stream from a status that was saved on the way.
InitReplay ==
    /\ InitRun
    /\ calc = NoCalc
    /\ \E es \in EventStreams : replay = [NoReplay EXCEPT !.stream = es]

NextReplay ==
    \/ creates = 0 /\ UserCreate(1, 1)
    \/ Reconcile(1)
    \/ JobEventRetry(1) \/ JobEventSave(1)
    \/ PodEventRetry(1) \/ PodEventLog(1) \/ PodEventSave(1)
    \/ StreamEvent
    \/ SavedStatus
    \/ ReplayStart

SpecReplay == InitReplay /\ [][NextReplay]_vars

\* One benchmark, created once, that the user may delete in any phase: also
\* while the Summarising branch is deleting the managed resources.  An event
\* handler starts when no other handler of the benchmark is running.
NextDelAny ==
    \/ creates = 0 /\ UserCreate(1, 1)
    \/ Reconcile(1)
    \/ UserDelete(1)
    \/ DeleteStart(1) \/ DeleteDel(1) \/ DeleteDelPC(1) \/ CollectChildren(1)
    \/ EvStart(1) /\ JobEvent(1)
    \/ EvStart(1) /\ JobDeletedEvent(1)
    \/ JobEventRetry(1) \/ JobEventSave(1)
    \/ EvStart(1) /\ PodEvent(1)
    \/ PodEventRetry(1) \/ PodEventLog(1) \/ PodEventSave(1)

SpecDelAny == Init /\ [][NextDelAny]_vars

\* The handlers of one benchmark of the set, and the handlers of the set: kopf
\* gives every object a task of its own that runs the handlers due for it.
KidStep(b) ==
    \/ ~EvBusy(b) /\ CreateStart(b)
    \/ ~EvBusy(b) /\ CreateAck(b)
    \/ ~EvBusy(b) /\ CreateList(b)
    \/ ~EvBusy(b) /\ CreateMakePC(b)
    \/ ~EvBusy(b) /\ CreateApply(b)
    \/ ~EvBusy(b) /\ CreateSave(b)
    \/ ~EvBusy(b) /\ StatusTerminal(b)
    \/ ~EvBusy(b) /\ StatusSummarising(b)
    \/ ~EvBusy(b) /\ StatusSave(b)
    \/ ~EvBusy(b) /\ StatusRegFetch(b)
    \/ ~EvBusy(b) /\ StatusRegSave(b)
    \/ ~EvBusy(b) /\ StatusSumSave(b)
    \/ ~EvBusy(b) /\ StatusDel(b)
    \/ ~EvBusy(b) /\ StatusDelPC(b)
    \/ ~EvBusy(b) /\ StatusCompSave(b)
    \/ JobEventSave(b)
    \/ PodEventLog(b)
    \/ PodEventSave(b)

SetStep ==
    \/ SetCreateStart
    \/ SetCreateSave
    \/ SetCreateApply
    \/ SetCompletedStart
    \/ SetCompletedSave

\* The benchmark set where every handler that stays due is run: the events of
\* the jobs and pods come or do not.
SpecSetFair ==
    /\ Init /\ [][NextSet]_vars
    /\ WF_vars(SetStep)
    /\ \A b \in Benchmarks : WF_vars(KidStep(b))

\* The allocator where the creation of a priority class may meet a 409.
NextAllocExists ==
    \/ NextAlloc
    \/ \E b \in Benchmarks : CreateMakePCExists(b)

SpecAllocExists == Init /\ [][NextAllocExists]_vars

\* summarise called on a benchmark of each kind with each log.
InitSummarise ==
    /\ InitRun
    /\ replay = NoReplay
    /\ \E bm \in Summarised : calc = [fn |-> "summarise", arg |-> bm, out |-> ""]

NextSummarise == SummariseCall

SpecSummarise == InitSummarise /\ [][NextSummarise]_vars

\* The names handle_benchmark_set_created gives to the benchmarks of a set.
InitNames ==
    /\ InitRun
    /\ replay = NoReplay
    /\ \E perms \in NamedPermutations : calc = [fn |-> "names", arg |-> perms, out |-> <<>>]

NextNames == NamesCall

SpecNames == InitNames /\ [][NextNames]_vars

\* The spec of a child: the template spec merged with a permutation.
InitMerge ==
    /\ InitRun
    /\ replay = NoReplay
    /\ \E template \in Mergeable, permutation \in Mergeable :
          calc = [fn |-> "mergeconcat", arg |-> <<template, permutation>>, out |-> NoneValue]

NextMerge == MergeCall

SpecMerge == InitMerge /\ [][NextMerge]_vars

\* The pods of the job of a benchmark of each kind, and their events.
InitPods ==
    /\ InitRun
    /\ replay = NoReplay
    /\ \E kind \in LogKinds :
          calc = [fn |-> "pod_modified", arg |-> <<kind>>,
                  out |-> [phase |-> "Running", status |-> NoPodStatus,
                           pods |-> [name \in KindPods(kind) |-> "Pending"],
                           last |-> <<"", "", "">>]]

NextPods == PodRuns \/ PodEnds \/ PodDeleted \/ BenchmarkMovesOn

SpecPods == InitPods /\ [][NextPods]_vars

\* ================================================================ properties
Live(b) == obj[b].state \in {"present", "deleting"}

\* C1: whatever the interleaving of the create handlers, no two distinct
\* priority classes carry the same value, so no two live benchmarks are bound
\* to classes of equal value; this also holds after benchmarks have completed
\* or been deleted and others have been created again.
C1_DistinctPriorities ==
    /\ \A p, q \in pcs : p.name # q.name => p.value # q.value
    /\ \A a, b \in Benchmarks :
         a # b /\ Live(a) /\ Live(b) =>
            \A p \in PcsOf(a), q \in PcsOf(b) : p.value # q.value

\* Two live benchmarks hold a class each, one of them created after an earlier
\* benchmark has gone, and a handler has allocated below a class that was there.
C1_Witness ==
    /\ creates = MaxCreates
    /\ \A b \in Concurrent :
         /\ obj[b].state = "present"
         /\ \E p \in PcsOf(b) : obj[b].status.priorityClassName = p.name
    /\ \E p \in pcs : p.value < initial_priority - 1

\* The status-changed handler of benchmark b has returned for phase ph, which is
\* still the stored phase, and no handler of b has run since.
StatusHandledFor(b, ph) ==
    /\ h[b].kind = "idle"
    /\ out[b].handler = "status" /\ out[b].result = "ok"
    /\ handled[b] = ph
    /\ obj[b].state = "present" /\ obj[b].status.phase = ph

\* C2: once the status-changed handler has run to completion for a terminal
\* phase (Aborted, Completed, Terminated, Failed), finishedAt is set,
\* managedResources is empty and no priority class with the labels of the
\* benchmark exists.
C2_TerminalTornDown ==
    \A b \in Benchmarks : \A ph \in TerminalPhases :
        StatusHandledFor(b, ph) =>
            /\ obj[b].status.finishedAt # 0
            /\ obj[b].status.managedResources = <<>>
            /\ PcsOf(b) = {}

\* C3: in the Summarising phase, on every execution of the handler, a managed
\* resource or the priority class is deleted only after the summarised status
\* has been saved by this execution, the priority class only after every
\* managed resource, and Completed (with managedResources emptied) is written
\* only when no managed resource and no priority class is left.
C3_SummariseThenTeardown ==
    [][\A b \in Benchmarks :
         /\ (ChildrenOf(b)' # ChildrenOf(b) /\ ChildrenOf(b)' \subseteq ChildrenOf(b)) =>
               /\ h[b].kind = "status" /\ h[b].inv = "Summarising" /\ h[b].saved
               /\ obj[b].status.result # 0
               /\ PcsOf(b)' = PcsOf(b)
         /\ (PcsOf(b)' # PcsOf(b) /\ PcsOf(b)' \subseteq PcsOf(b)) =>
               /\ h[b].kind = "status" /\ h[b].inv = "Summarising" /\ h[b].saved
               /\ obj[b].status.result # 0
               /\ ChildrenOf(b) = {}
         /\ (obj[b].status.phase # "Completed" /\ obj'[b].status.phase = "Completed") =>
               /\ ChildrenOf(b) = {} /\ PcsOf(b) = {}
               /\ obj[b].status.result # 0
               /\ obj'[b].status.managedResources = <<>>
    ]_vars

\* A handler that was run again after incomplete results has saved the
\* summary, deleted the resources and the class, and is about to write Completed.
C3_Witness ==
    \E b \in Benchmarks :
        /\ out[b].handler = "status" /\ out[b].why = "incomplete"
        /\ h[b].kind = "status" /\ h[b].pc = "compsave" /\ h[b].saved
        /\ ChildrenOf(b) = {} /\ PcsOf(b) = {}
        /\ obj[b].status.result # 0

\* C4: when summarise raises a parse error in the Summarising phase, the
\* benchmark goes to phase Failed and the handler is not run again for that
\* log: after the handler has ended on the parse error the stored phase is
\* Failed and the status-changed handler is no longer due.
C4_ParseErrorFails ==
    \A b \in Benchmarks :
        (h[b].kind = "idle" /\ out[b].handler = "status" /\ out[b].why = "format") =>
            /\ obj[b].status.phase = "Failed"
            /\ ~StatusDue(b)

\* C5: when summarise finds the client log not yet captured, the handler ends
\* with a temporary error of delay 1 s and has no effect: the phase stays
\* Summarising, nothing is written to the status, no managed resource and no
\* priority class is deleted, and the handler stays due, so it runs again.
C5_IncompleteRetries ==
    [][\A b \in Benchmarks :
         (StatusDue(b) /\ obj[b].status.phase = "Summarising"
            /\ obj[b].status.clientLog = 0
            /\ (out'[b] # out[b] \/ h'[b] # h[b])) =>
               /\ out'[b].result = "temporary" /\ out'[b].why = "incomplete"
               /\ out'[b].delay = IncompleteDelay
               /\ obj' = obj /\ children' = children /\ pcs' = pcs
               /\ handled' = handled
               /\ obj'[b].status.phase = "Summarising"
               /\ StatusDue(b)'
    ]_vars

\* The handler has ended on incomplete results and is due again.
C5_Witness ==
    \E b \in Benchmarks :
        /\ out[b].handler = "status" /\ out[b].why = "incomplete"
        /\ out[b].delay = IncompleteDelay
        /\ obj[b].status.phase = "Summarising" /\ obj[b].status.clientLog = 0
        /\ ChildrenOf(b) # {} /\ PcsOf(b) # {}
        /\ StatusDue(b)

\* C6: every status write that succeeds is made from a copy read at the
\* stored resourceVersion, so no field set by one handler is overwritten by the
\* stale copy of another; a handler refused with a 409 has written nothing and
\* takes a fresh copy before it saves again.
C6_NoLostUpdate ==
    /\ [](\A b \in Benchmarks : ~hist[b].staleWrite /\ ~hist[b].lost)
    /\ [][\A b \in Benchmarks :
            /\ (obj'[b].status # obj[b].status /\ obj'[b].state = obj[b].state) =>
                  \/ h[b].kind # "idle" /\ h[b].rv = obj[b].rv /\ h[b].st = obj'[b].status
                  \/ jobH[b].pc = "save" /\ jobH[b].rv = obj[b].rv
                        /\ jobH[b].st = obj'[b].status
                  \/ podH[b].pc = "save" /\ podH[b].rv = obj[b].rv
                        /\ podH[b].st = obj'[b].status
            /\ (jobH[b].pc = "save" /\ jobH'[b].pc = "retry") => obj' = obj
            /\ (podH[b].pc = "save" /\ podH'[b].pc = "retry") => obj' = obj
            /\ (jobH[b].pc = "retry" /\ jobH'[b].pc = "save") => jobH'[b].rv = obj[b].rv
            /\ (podH[b].pc = "retry" /\ podH'[b].pc # "retry" /\ podH'[b].pc # "idle") =>
                  podH'[b].rv = obj[b].rv
       ]_vars

\* The job event handler has been refused with a 409 and has not read the
\* benchmark again: the stored status carries a client log and a phase that
\* its copy does not have.
C6_Witness ==
    \E b \in Benchmarks :
        /\ jobH[b].pc = "retry" /\ jobH[b].rv < obj[b].rv
        /\ jobH[b].st.clientLog = 0 /\ obj[b].status.clientLog # 0
        /\ obj[b].status.phase # jobH[b].st.phase

\* C7: a benchmark deleted while its phase is Preparing, at whatever point of
\* the create handler, leaves no priority class with its labels and no child
\* once the delete handler has returned and the children it owned have been
\* collected.
C7_DeletedWhilePreparingClean ==
    \A b \in Benchmarks :
        (/\ obj[b].state = "gone" /\ hist[b].delPhase = "Preparing"
         /\ h[b].kind = "idle" /\ out[b].handler = "delete" /\ out[b].result = "ok"
         /\ ChildrenOf(b) = {}) =>
            PcsOf(b) = {}

\* C8: once the stored phase is Completed, no job or pod event changes the
\* status, also when the event handler read the benchmark before Completed was
\* written: every change of a Completed status is made by a step in which
\* neither event handler moves.
C8_CompletedIgnoresEvents ==
    /\ [](\A b \in Benchmarks : ~hist[b].evAfterCompleted)
    /\ [][\A b \in Benchmarks :
            (/\ obj[b].status.phase = "Completed"
             /\ obj'[b].state = obj[b].state
             /\ obj'[b].status # obj[b].status) =>
                 /\ jobH'[b] = jobH[b] /\ podH'[b] = podH[b]
                 /\ obj'[b].status.phase = "Completed"
       ]_vars

\* Completed is stored while the job event handler still holds, and is about
\* to save, a copy it read before Completed was written.
C8_Witness ==
    \E b \in Benchmarks :
        /\ obj[b].state = "present" /\ obj[b].status.phase = "Completed"
        /\ jobH[b].pc = "save" /\ jobH[b].rv < obj[b].rv
        /\ jobH[b].st.phase # "Completed"

\* Nothing is pending for benchmark b: no handler of it is running or due and
\* neither its job nor its pod has another event to report.
Settled(b) == ~ENABLED (Reconcile(b) \/ Correlate(b))

\* C9: a benchmark whose job has reached Completed and whose client pod has
\* succeeded with a parseable log, which has been captured, ends in phase
\* Completed with its managed resources and priority class deleted and
\* finishedAt set: once nothing is pending for it any more, it is there.
C9_CompletesOnceSettled ==
    \A b \in Benchmarks :
        (/\ obj[b].state = "present"
         /\ job[b].phase = "Completed"
         /\ obj[b].status.clientLog # 0
         /\ Summarise(obj[b].status, obj[b].streams) = "ok"
         /\ Settled(b)) =>
            /\ obj[b].status.phase = "Completed"
            /\ obj[b].status.finishedAt # 0
            /\ ChildrenOf(b) = {} /\ PcsOf(b) = {}

\* C10: startedAt is set exactly once, on the first transition into Running:
\* it is written only while the stored phase is Running, its value never
\* changes once set, and every benchmark whose stored phase has been Running
\* has it set once nothing is pending for the benchmark any more.
C10_StartedAtOnce ==
    /\ [][\A b \in Benchmarks :
            (obj'[b].state = obj[b].state
               /\ obj'[b].status.startedAt # obj[b].status.startedAt) =>
                 /\ obj[b].status.startedAt = 0
                 /\ obj[b].status.phase = "Running"
       ]_vars
    /\ [](\A b \in Benchmarks :
            (obj[b].state = "present" /\ hist[b].everRunning /\ Settled(b)) =>
                obj[b].status.startedAt # 0)

\* C11: finishedAt is written only while it is unset and only while the stored
\* phase is terminal, so it is unset in every non-terminal phase reached before
\* and its value never changes afterwards, also when a later event moves the
\* benchmark to another terminal phase or the handler is run again.
C11_FinishedAtOnce ==
    [][\A b \in Benchmarks :
         (obj'[b].state = obj[b].state
            /\ obj'[b].status.finishedAt # obj[b].status.finishedAt) =>
              /\ obj[b].status.finishedAt = 0
              /\ obj[b].status.phase \in TerminalPhases
              /\ obj'[b].status.phase = obj[b].status.phase
    ]_vars

\* finishedAt was set in a terminal phase, later events have moved the
\* benchmark on (through Running, where startedAt was taken after it) and into
\* a terminal phase again, and the handler has returned for that phase.
C11_Witness ==
    \E b \in Benchmarks :
        /\ obj[b].status.finishedAt # 0 /\ obj[b].status.finishedAt < now[b] - 1
        /\ obj[b].status.phase \in TerminalPhases
        /\ StatusHandledFor(b, obj[b].status.phase)

\* C12: every priority class has a value of at most initial_priority, a class
\* is created below every class that exists, and the first class ever created,
\* when no class exists, has the value initial_priority itself.
C12_ValueAtMostInitial ==
    /\ [](\A p \in pcs : p.value <= initial_priority)
    /\ [][\A p \in pcs' \ pcs :
            /\ \A q \in pcs : p.value < q.value
            /\ p.name = 1 => p.value = initial_priority]_vars

\* Two benchmarks whose create handlers ran at the same time hold the first
\* two classes, at initial_priority and one below it.
C12_Witness ==
    \E a, b \in Benchmarks :
        /\ a # b /\ obj[a].state = "present" /\ obj[b].state = "present"
        /\ h[a].kind = "create" /\ h[b].kind = "create"
        /\ \E p \in PcsOf(a), q \in PcsOf(b) :
              p.value = initial_priority /\ q.value = initial_priority - 1

\* C12 as stated: every class is strictly below initial_priority.
C12_ValueBelowInitial == \A p \in pcs : p.value < initial_priority

\* C13: classes are named in the order of their creation.  The first class
\* ever has the value initial_priority; the second, created while the first
\* exists, initial_priority - 1; the third, created while the second exists
\* (the first deleted or not), initial_priority - 2.  A step that removes
\* classes is the last step of the delete handler of their owner, it removes
\* the class named in that benchmark's status and leaves every other class as
\* it was.
C13_AllocationSequence ==
    /\ [](\A p \in pcs :
            /\ p.name = 1 => p.value = initial_priority
            /\ (p.name = 2 /\ \E q \in pcs : q.name = 1)
                  => p.value = initial_priority - 1
            /\ (p.name = 3 /\ \E q \in pcs : q.name = 2 /\ q.value = initial_priority - 1)
                  => p.value = initial_priority - 2)
    /\ [][\A p \in pcs \ pcs' :
            /\ h[p.owner].kind = "delete" /\ h'[p.owner].kind = "idle"
            /\ obj[p.owner].status.priorityClassName = p.name
            /\ pcs' = pcs \ {p}]_vars

\* A, B and C are three benchmarks: A has been deleted and its class is gone,
\* B holds the second class, unchanged at initial_priority - 1, and C's create
\* handler has returned with the third class, at initial_priority - 2.
C13_Witness ==
    \E a, b, c \in Benchmarks :
        /\ a # b /\ b # c /\ a # c
        /\ obj[a].state = "gone" /\ PcsOf(a) = {}
        /\ pcs = {[name |-> 2, owner |-> b, value |-> initial_priority - 1],
                  [name |-> 3, owner |-> c, value |-> initial_priority - 2]}
        /\ obj[b].state = "present" /\ obj[b].status.priorityClassName = 2
        /\ obj[c].state = "present" /\ obj[c].status.priorityClassName = 3
        /\ h[c].kind = "idle"

\* C13 as stated: the three classes are at initial_priority - 1, - 2 and - 3.
C13_StatedValues ==
    \A p \in pcs :
        /\ p.name = 1 => p.value = initial_priority - 1
        /\ (p.name = 2 /\ \E q \in pcs : q.name = 1)
              => p.value = initial_priority - 2
        /\ (p.name = 3 /\ \E q \in pcs : q.name = 2 /\ q.value = initial_priority - 2)
              => p.value = initial_priority - 3

\* C14: classes are named in the order of their creation.  Of the classes of
\* two live benchmarks, the one allocated earlier has the strictly higher
\* value: the lower value belongs to the newer benchmark.
C14_LowerIsNewer ==
    \A a, b \in Benchmarks :
        a # b /\ Live(a) /\ Live(b) =>
            \A p \in PcsOf(a), q \in PcsOf(b) : p.name < q.name => q.value < p.value

\* Two live benchmarks whose create handlers have returned, each bound to its
\* class; the class allocated later is the lower one.
C14_Witness ==
    \E a, b \in Benchmarks :
        /\ a # b /\ obj[a].state = "present" /\ obj[b].state = "present"
        /\ h[a].kind = "idle" /\ h[b].kind = "idle"
        /\ \E p \in PcsOf(a), q \in PcsOf(b) :
              /\ obj[a].status.priorityClassName = p.name
              /\ obj[b].status.priorityClassName = q.name
              /\ p.name < q.name /\ q.value < p.value

\* C14 as stated: of two live benchmarks, the one with the lower value is the
\* one whose class was allocated earlier.
C14_LowerIsOlder ==
    \A a, b \in Benchmarks :
        a # b /\ Live(a) /\ Live(b) =>
            \A p \in PcsOf(a), q \in PcsOf(b) : p.value < q.value => p.name < q.name

\* C15: at most one priority class carries the labels of a benchmark.  A
\* listing that finds the benchmark's class creates none and changes none, and
\* goes on with the name of that class; the status the create handler then
\* saves names a class of the benchmark.
C15_OneClassReused ==
    /\ [](\A b \in Benchmarks : Cardinality(PcsOf(b)) <= 1)
    /\ [][\A b \in Benchmarks :
            /\ (h[b].kind = "create" /\ h[b].pc = "list" /\ h'[b] # h[b]
                   /\ PcsOf(b) # {}) =>
                  /\ pcs' = pcs /\ nextName' = nextName
                  /\ h'[b].pc = "apply"
                  /\ \E p \in PcsOf(b) : h'[b].st.priorityClassName = p.name
            /\ (h[b].kind = "create" /\ h[b].pc = "save" /\ h'[b] # h[b]
                   /\ obj'[b].status # obj[b].status) =>
                  /\ pcs' = pcs
                  /\ \E p \in PcsOf(b) : obj'[b].status.priorityClassName = p.name]_vars

\* The create handler was refused its save and is running again: its listing
\* has found the class of its first run, which is still the only one.
C15_Witness ==
    \E b \in Benchmarks :
        /\ out[b].handler = "create" /\ out[b].result = "temporary"
        /\ h[b].kind = "create" /\ h[b].pc = "apply"
        /\ Cardinality(PcsOf(b)) = 1
        /\ \E p \in PcsOf(b) : h[b].st.priorityClassName = p.name

\* The status of the set as its create handler saved it is the stored status.
SetStatusSaved ==
    \/ seth.kind = "create" /\ seth.pc = "apply"
    \/ sethandled.created

\* C16: once the create handler of a set has saved the status,
\* permutationCount is the number of permutations, count is permutationCount
\* times spec.repetitions, and succeeded and failed are 0.
C16_CountsSaved ==
    SetStatusSaved =>
        /\ bset.status.permutationCount = Len(get_permutations(bset.spec.permutations))
        /\ bset.status.count = bset.status.permutationCount * bset.spec.repetitions
        /\ bset.status.succeeded = 0 /\ bset.status.failed = 0

\* The benchmarks C17 expects: every permutation, in order, repetitions times.
ExpectedKids ==
    LET permutations == get_permutations(bset.spec.permutations)
        repetitions == bset.spec.repetitions
    IN [i \in 1..(Len(permutations) * repetitions) |->
          [name |-> i,
           spec |-> mergeconcat(TemplateSpec, permutations[((i - 1) \div repetitions) + 1])]]

\* C17: once the create handler of a set has returned, the benchmarks it has
\* applied are status.count in number and are the permutations in order, the
\* product first and the explicit entries after it, each repetitions times.
C17_ChildrenCreated ==
    sethandled.created =>
        /\ Len(kids) = bset.status.count
        /\ kids = ExpectedKids

\* The counters of the set have been initialised by its create handler.
SetInitialised == bset.state = "present" /\ bset.status.succeeded # None

\* C18: in every state of an initialised set, succeeded + failed is at most count.
C18_TallyWithinCount ==
    SetInitialised => bset.status.succeeded + bset.status.failed <= bset.status.count

\* C19: an initialised set has finishedAt exactly when succeeded + failed is
\* count, and where finishedAt is set the completed map has count entries,
\* succeeded of them true and failed of them false.
C19_FinishedIffTallied ==
    SetInitialised =>
        LET st == bset.status
        IN /\ (st.finishedAt # 0) <=> (st.succeeded + st.failed = st.count)
           /\ st.finishedAt # 0 =>
                /\ Cardinality(DOMAIN st.completed) = st.count
                /\ st.succeeded = Cardinality({n \in DOMAIN st.completed : st.completed[n]})
                /\ st.failed = Cardinality({n \in DOMAIN st.completed : ~st.completed[n]})

\* C20: no step removes an entry of the set's completed map or changes the
\* value of one: a benchmark's name is recorded once.
C20_CompletedOnlyGrows ==
    [][\A n \in DOMAIN bset.status.completed :
          /\ n \in DOMAIN bset'.status.completed
          /\ bset'.status.completed[n] = bset.status.completed[n]]_vars

\* C20, as the code has it: a step that changes the completed map is the save
\* of one benchmark's registration and puts that benchmark's entry, true if it
\* is Completed, into the map as it is stored; no entry is removed and no
\* entry goes from true to false.
C20_CompletedKeepsEntries ==
    [][/\ \A n \in DOMAIN bset.status.completed :
             /\ n \in DOMAIN bset'.status.completed
             /\ bset.status.completed[n] => bset'.status.completed[n]
       /\ bset'.status.completed # bset.status.completed =>
             \E b \in Benchmarks :
                /\ h[b].kind = "status" /\ h[b].pc = "regsave"
                /\ bset'.status.completed =
                      Put(bset.status.completed, b, h[b].inv = "Completed")]_vars

\* Both benchmarks of a set of two were registered as not successful and
\* tallied so; one of them has completed since, and its entry is now true.
C20_Witness ==
    /\ bset.status.count = 2 /\ bset.status.failed = 2
    /\ DOMAIN bset.status.completed = {1, 2}
    /\ \E n \in {1, 2} : bset.status.completed[n]

\* C21: an endpoints event of a benchmark that is not Completed and has a
\* discovery configmap leaves in data.hosts the default hosts followed by one
\* line per discovered key (hostname.name, the hostname being the address's
\* hostname or else the name of its Pod targetRef, over addresses and
\* notReadyAddresses, none for a DELETED event) when every stripped line of
\* all-hosts is such a key, and the empty string otherwise; data.hosts leaves
\* the empty string only by such an event.
C21_Discovered(type, subsets) ==
    IF type = "DELETED" THEN {}
    ELSE {a \in Range(Chain(subsets)) : a.hostname # "" \/ a.targetRef.kind = "Pod"}

C21_Peer(a) == IF a.hostname # "" THEN a.hostname ELSE a.targetRef.name

C21_Covered(type, subsets, allHosts) ==
    \A i \in 1..Len(allHosts) :
        \E a \in C21_Discovered(type, subsets) :
            Strip(allHosts[i]) = C21_Peer(a) \o "." \o EndpointsName

C22_PodsAnnotated ==
    (cmH.pc = "idle" /\ cmH.hosts # <<>>) =>
        \A i \in 1..Len(cmH.listed) :
            pods[cmH.listed[i]].state = "present" => pods[cmH.listed[i]].annotated

\* C24: a fio benchmark with a volumeClaimName gets no PVC and its job uses
\* that claim, also when a volumeClaimTemplate is given; one with neither is
\* refused with a permanent error and gets no configmap, PVC or job and no
\* phase.
C24_ClaimNameFirst ==
    /\ fio.spec.volumeClaimName # "" =>
         /\ fio.pvc = ""
         /\ fio.job \in {"", fio.spec.volumeClaimName}
         /\ (fio.pc = "done" => fio.result = "ok" /\ fio.job = fio.spec.volumeClaimName)
    /\ (fio.spec.volumeClaimName = "" /\ fio.spec.volumeClaimTemplate = "none") =>
         /\ ~fio.configmap /\ fio.pvc = "" /\ fio.job = "" /\ fio.phase = ""
         /\ (fio.pc = "done" => fio.result = "permanent")

\* The handler has returned for a spec with both a claim name and a template.
C24_Witness ==
    /\ fio.pc = "done"
    /\ fio.spec.volumeClaimName = "data"
    /\ fio.spec.volumeClaimTemplate = "template"
    /\ fio.job = "data"
    /\ fio.phase = "Pending"

\* C25: a step of a benchmark's status handler changes the set only when the
\* benchmark is owned by the set, the handler was invoked with a terminal
\* phase and the set is there, and then it stores completed[name] = True for
\* Completed and False for Aborted, Terminated and Failed and changes no
\* other entry; the handler of an owned benchmark that returns from a
\* terminal phase while the set is there leaves that entry stored.
C25_RegistersCompletion ==
    [][ \A b \in Benchmarks :
          (h[b].kind = "status" /\ h'[b] # h[b]) =>
              /\ bset' # bset =>
                   /\ Owned(b) /\ h[b].inv \in TerminalPhases /\ bset.state = "present"
                   /\ bset'.state = "present" /\ bset'.spec = bset.spec
                   /\ DOMAIN bset'.status.completed = DOMAIN bset.status.completed \cup {b}
                   /\ bset'.status.completed[b] = (h[b].inv = "Completed")
                   /\ \A n \in DOMAIN bset.status.completed \ {b} :
                        bset'.status.completed[n] = bset.status.completed[n]
              /\ ( /\ Owned(b) /\ h[b].inv \in TerminalPhases
                   /\ h'[b].kind = "idle" /\ out'[b].result = "ok"
                   /\ bset'.state = "present" ) =>
                   /\ b \in DOMAIN bset'.status.completed
                   /\ bset'.status.completed[b] = (h[b].inv = "Completed") ]_vars

\* One benchmark of the set is registered as succeeded, another as failed.
C25_Witness ==
    /\ bset.state = "present"
    /\ \E b, c \in DOMAIN bset.status.completed :
         bset.status.completed[b] /\ ~bset.status.completed[c]

\* C26: for the permutations of every benchmark set, get_count is 1 when
\* product and explicit are both empty and the product of the lengths of the
\* product lists plus the length of explicit otherwise, and it is the number
\* of permutations that get_permutations yields.
C26_CountIsEnumerated ==
    bset.state = "present" =>
        LET perms == bset.spec.permutations
            lens == [i \in 1..Len(perms.product) |-> Len(perms.product[i][2])]
        IN /\ get_count(perms) =
                IF perms.product = <<>> /\ perms.explicit = <<>> THEN 1
                ELSE MathProd(lens) + Len(perms.explicit)
           /\ get_count(perms) = Len(get_permutations(perms))

\* C27: when the listing finds no class with the benchmark's labels, the
\* handler keeps the least of initial_priority + 1 and the values of the
\* classes listed, and creates the benchmark's class one below it: below the
\* value of every class that exists.
C27_OneBelowTheLowest ==
    [][ \A b \in Benchmarks :
          /\ (h[b].pc = "list" /\ h'[b].pc = "makepc") =>
               LET values == {initial_priority + 1} \cup {p.value : p \in pcs}
               IN /\ PcsOf(b) = {}
                  /\ h'[b].cur \in values
                  /\ \A v \in values : h'[b].cur <= v
          /\ \A p \in pcs' \ pcs :
               p.owner = b =>
                   /\ h[b].pc = "makepc"
                   /\ p.value = h[b].cur - 1
                   /\ \A q \in pcs : p.value < q.value ]_vars

\* A class has just been created one below the lowest of the others.
C27_Witness ==
    \E b \in Benchmarks :
        /\ h[b].kind = "create" /\ h[b].pc = "apply" /\ h[b].idx = 1
        /\ \E p \in PcsOf(b), q \in pcs \ PcsOf(b) :
              /\ p.name = h[b].st.priorityClassName
              /\ p.value = q.value - 1
              /\ \A r \in pcs \ {p} : q.value <= r.value

\* C30: save_benchmark_status changes the stored object only when the
\* resourceVersion it sends is the stored one, and then stores the status it
\* was given and hands back the stored object with its resourceVersion; on a
\* conflict it stores nothing and raises a temporary error with a delay of
\* 1 s (a kopf handler ends with it, the correlator goes to its retry); on
\* another error it stores nothing and the error ends the handler.
C30_SaveBenchmarkStatus ==
    [][ \A b \in Benchmarks :
          /\ ( /\ h[b].pc \in {"ack", "save", "sumsave", "compsave"}
               /\ h'[b] # h[b] ) =>
               LET o == SaveOutcome(b, h[b].rv)
               IN /\ o = "ok" =>
                       /\ h[b].rv = obj[b].rv
                       /\ obj'[b].status = h[b].st
                       /\ obj'[b].rv = IF obj[b].status = h[b].st
                                       THEN obj[b].rv ELSE obj[b].rv + 1
                       /\ h'[b].kind # "idle" => h'[b].rv = obj'[b].rv
                  /\ o = "conflict" =>
                       /\ h[b].rv # obj[b].rv
                       /\ obj' = obj
                       /\ h'[b].kind = "idle"
                       /\ out'[b].result = "temporary" /\ out'[b].delay = 1
                  /\ o = "notfound" =>
                       /\ obj' = obj
                       /\ h'[b].kind = "idle"
                       /\ out'[b].result = "error"
          /\ (jobH[b].pc = "save" /\ jobH'[b] # jobH[b]) =>
               LET o == SaveOutcome(b, jobH[b].rv)
               IN /\ o = "ok" => jobH[b].rv = obj[b].rv /\ obj'[b].status = jobH[b].st
                  /\ o = "conflict" => obj' = obj /\ jobH'[b].pc = "retry"
                  /\ o = "notfound" => obj' = obj /\ jobH'[b].pc = "idle"
          /\ (podH[b].pc = "save" /\ podH'[b] # podH[b]) =>
               LET o == SaveOutcome(b, podH[b].rv)
               IN /\ o = "ok" => podH[b].rv = obj[b].rv /\ obj'[b].status = podH[b].st
                  /\ o = "conflict" => obj' = obj /\ podH'[b].pc = "retry"
                  /\ o = "notfound" => obj' = obj /\ podH'[b].pc = "idle" ]_vars

\* A kopf handler has ended on a conflict of its save and nothing was stored
\* of what it had set.
C30_Witness ==
    \E b \in Benchmarks :
        /\ out[b].result = "temporary" /\ out[b].why = "conflict"
        /\ out[b].delay = 1
        /\ obj[b].state = "present"
        /\ h[b].kind = "idle"

\* C29: an event of a job, an endpoints object or a discovery configmap whose
\* benchmark is gone ends its handler at once: nothing is stored, no object
\* of the cluster changes, the handler is idle and not waiting for a retry.
C29_Untouched ==
    /\ obj' = obj /\ pcs' = pcs /\ children' = children /\ pods' = pods
    /\ cm'.state = cm.state /\ cm'.hosts = cm.hosts /\ cm'.rv = cm.rv
    /\ bset' = bset

C29_OrphanEventDropped ==
    [][ obj[Disc].state = "gone" =>
          /\ (jobH[Disc].pc = "idle" /\ job'[Disc] # job[Disc]) =>
               jobH'[Disc] = IdleEv /\ C29_Untouched
          /\ (epH.pc = "idle" /\ epH' # epH) =>
               epH'.pc = "idle" /\ epH'.last = "dropped" /\ C29_Untouched
          /\ (cmH.pc = "idle" /\ cm.dirty /\ ~cm'.dirty) =>
               cmH'.pc = "idle" /\ cmH'.last = "dropped" /\ C29_Untouched ]_vars

\* An endpoints event was dropped while the configmap of the deleted
\* benchmark was still there.
C29_Witness ==
    /\ obj[Disc].state = "gone"
    /\ cm.state = "present"
    /\ epH.pc = "idle" /\ epH.last = "dropped"

\* C28: a job or pod event handler whose save is refused with a conflict goes
\* to its retry, where the benchmark is fetched again and the whole handler
\* runs on the fresh copy; it leaves the loop only when its save is stored,
\* when the benchmark is gone or when the benchmark is Completed; and it does
\* leave it.
C28_RetryLoop(ev, b, update) ==
    /\ (ev[b].pc = "save" /\ update[b] # ev[b]) =>
         \/ update[b].pc = "retry" /\ SaveOutcome(b, ev[b].rv) = "conflict" /\ obj' = obj
         \/ update[b].pc = "idle" /\ SaveOutcome(b, ev[b].rv) = "ok"
              /\ obj'[b].status = ev[b].st
         \/ update[b].pc = "idle" /\ ~Fetched(b) /\ obj' = obj
    /\ (ev[b].pc = "retry" /\ update[b] # ev[b]) =>
         \/ update[b].pc = "idle" /\ (~Fetched(b) \/ obj[b].status.phase = "Completed")
         \/ /\ update[b].pc \in {"save", "log"}
            /\ Fetched(b) /\ obj[b].status.phase # "Completed"
            /\ update[b].rv = obj[b].rv
            /\ update[b].type = ev[b].type /\ update[b].phase = ev[b].phase

C28_RetryUntilSaved ==
    /\ [][ C28_RetryLoop(jobH, 1, jobH') /\ C28_RetryLoop(podH, 1, podH') ]_vars
    /\ (jobH[1].pc # "idle") ~> (jobH[1].pc = "idle")
    /\ (podH[1].pc # "idle") ~> (podH[1].pc = "idle")

\* The save of a job event handler was refused and the handler waits for its
\* retry, the benchmark being there and not Completed.
C28_Witness ==
    /\ jobH[1].pc = "retry"
    /\ Fetched(1) /\ obj[1].status.phase # "Completed"
    /\ jobH[1].rv # obj[1].rv

\* The replay has delivered every event of the stream and nothing is pending.
C23_Replayed == replay.pass = 2 /\ replay.pos = Len(replay.stream) /\ Quiet(1)

\* C23: once the whole event stream of a run has been replayed from a status
\* saved during the run, the benchmark has the terminal status of the run
\* again: the same phase and the same result, and no managed resources.
C23_ReplaySameTerminal ==
    C23_Replayed =>
        /\ obj[1].status.phase = replay.terminal.phase
        /\ obj[1].status.result = replay.terminal.result
        /\ obj[1].status.managedResources = <<>>
        /\ replay.terminal.managedResources = <<>>

\* What does hold of a replay: the phase and the result are those of the run,
\* and a run that ended Completed has no managed resources, then and after.
C23_SameOutcome ==
    C23_Replayed =>
        /\ obj[1].status.phase = replay.terminal.phase
        /\ obj[1].status.result = replay.terminal.result
        /\ replay.terminal.phase = "Completed" =>
              /\ obj[1].status.managedResources = <<>>
              /\ replay.terminal.managedResources = <<>>

\* A completed run has been replayed from a status saved while the benchmark
\* was Summarising with no log captured yet.
C23_Witness ==
    /\ C23_Replayed
    /\ replay.terminal.phase = "Completed"
    /\ replay.from.phase = "Summarising" /\ replay.from.clientLog = 0
    /\ obj[1].status.phase = "Completed" /\ obj[1].status.result = 1

\* C31: when handle_job_event has applied job_modified to the benchmark it
\* fetched, the copy it is about to save is the stored status with the phase
\* replaced by Summarising for job phase Completed and by the phase of the
\* same name for every other job phase; no other field differs.
C31_JobModifiedSetsPhaseOnly ==
    [][\A b \in Benchmarks :
          (jobH[b].pc \in {"idle", "retry"} /\ jobH'[b].pc = "save") =>
              jobH'[b].st =
                 [obj[b].status EXCEPT
                    !.phase = IF jobH'[b].phase = "Completed" THEN "Summarising"
                              ELSE jobH'[b].phase]]_vars

\* The handler holds the copy made from a Completed job event of a benchmark
\* whose status carries its priority class and managed resources.
C31_Witness ==
    /\ jobH[1].pc = "save" /\ jobH[1].phase = "Completed"
    /\ jobH[1].st.phase = "Summarising"
    /\ jobH[1].st.priorityClassName # 0 /\ jobH[1].st.managedResources # <<>>

C33_CreationConflictSwallowed ==
    \A b \in Benchmarks :
        ~(out[b].handler = "create" /\ out[b].result = "error" /\ out[b].why = "exists")

\* C34: for every benchmark kind and every log, summarise returns, or raises
\* the incomplete-results error, or raises PodLogFormatError; nothing else
\* escapes it.
C34_ThreeOutcomes ==
    (calc.fn = "summarise" /\ calc.out # "") =>
        calc.out \in {"ok", "PodResultsIncompleteError", "PodLogFormatError"}

\* Lexicographic order of two sequences of digits.
RECURSIVE C35_LexLess(_, _)
C35_LexLess(a, b) ==
    IF b = <<>> THEN FALSE
    ELSE IF a = <<>> THEN TRUE
    ELSE IF Head(a) # Head(b) THEN Head(a) < Head(b)
    ELSE C35_LexLess(Tail(a), Tail(b))

\* The names are pairwise distinct and of equal length, and their
\* lexicographic order is the order of creation.
C35_Ordered(names) ==
    \A i, j \in 1..Len(names) :
        i < j => /\ names[i] # names[j]
                 /\ Len(names[i]) = Len(names[j])
                 /\ C35_LexLess(names[i], names[j])

\* The names of the benchmarks of a set have been computed.
C35_Named == calc.fn = "names" /\ calc.out # <<>>

\* C35: the i-th child of a set is numbered i+1, padded with zeros to the
\* width ceil(log10(count)) + 1, and the names of the children of one set are
\* pairwise distinct, of equal length and ordered as they are created.
C35_ChildNames ==
    C35_Named =>
        /\ \A idx \in 1..Len(calc.out) :
              calc.out[idx] = Zfill(Str(idx), padding_width_Ceil(get_count(calc.arg)))
        /\ C35_Ordered(calc.out)

\* What holds of the width: it is the number of decimal digits of the count.
C35_WidthIsDigitsOfCount ==
    C35_Named =>
        \A idx \in 1..Len(calc.out) :
            calc.out[idx] = Zfill(Str(idx), Len(Str(get_count(calc.arg))))

\* What holds of the order: the names are distinct, of equal length and
\* ordered when the count is the number of benchmarks created.
C35_OrderedWhenCounted ==
    (C35_Named /\ get_count(calc.arg) = Len(calc.out)) => C35_Ordered(calc.out)

\* The names of the benchmarks: distinct, of equal length and ordered.
C35_NamesOrdered == C35_Named => C35_Ordered(calc.out)

\* A set of ten benchmarks has been named.
C35_Witness == C35_Named /\ Len(calc.out) = 10 /\ get_count(calc.arg) = 10

\* c is a merged with b: dicts key by key (a key of a alone keeps its value,
\* a key of b alone gets b's value, a key of both is merged in turn), two
\* lists by appending b's items to a's, and anything else by taking b's
\* value; with keepOnNone, a b that is None leaves a's value.
RECURSIVE C36_Merged(_, _, _, _)
C36_Merged(a, b, c, keepOnNone) ==
    IF a.t = "dict" /\ b.t = "dict"
    THEN /\ c.t = "dict"
         /\ DOMAIN c.v = DOMAIN a.v \cup DOMAIN b.v
         /\ \A k \in DOMAIN a.v \ DOMAIN b.v : c.v[k] = a.v[k]
         /\ \A k \in DOMAIN b.v \ DOMAIN a.v : c.v[k] = b.v[k]
         /\ \A k \in DOMAIN a.v \cap DOMAIN b.v :
               C36_Merged(a.v[k], b.v[k], c.v[k], keepOnNone)
    ELSE IF a.t = "list" /\ b.t = "list"
    THEN /\ c.t = "list"
         /\ Len(c.v) = Len(a.v) + Len(b.v)
         /\ \A i \in 1..Len(a.v) : c.v[i] = a.v[i]
         /\ \A i \in 1..Len(b.v) : c.v[Len(a.v) + i] = b.v[i]
    ELSE IF keepOnNone /\ b.t = "none" THEN c = a
    ELSE c = b

\* The spec of a child has been computed.
C36_Called == calc.fn = "mergeconcat" /\ calc.out # NoneValue

\* C36 as stated: the child spec is the template spec merged with the
\* permutation, dicts key by key, lists appended, and for anything else the
\* permutation's value in place of the template's.
C36_PermutationReplaces ==
    C36_Called => C36_Merged(calc.arg[1], calc.arg[2], calc.out, FALSE)

\* C36: the child spec is the template spec merged with the permutation,
\* dicts key by key, lists appended, and for anything else the permutation's
\* value in place of the template's unless that value is None, which leaves
\* the template's value; the template and the permutation are as before.
C36_MergeConcat ==
    /\ C36_Called => C36_Merged(calc.arg[1], calc.arg[2], calc.out, TRUE)
    /\ calc.fn = "mergeconcat" => calc.arg[1] \in Mergeable /\ calc.arg[2] \in Mergeable

\* A child spec with a nested dict merged, a list appended to and a key of the
\* template alone kept.
C36_Witness ==
    /\ C36_Called
    /\ calc.arg[1].v = [a |-> DictOf([c |-> ListOf(<<IntOf(1)>>)]), b |-> IntOf(2)]
    /\ calc.arg[2].v = [a |-> DictOf([c |-> ListOf(<<IntOf(2), IntOf(1)>>)])]
    /\ calc.out.v = [a |-> DictOf([c |-> ListOf(<<IntOf(1), IntOf(2), IntOf(1)>>)]),
                     b |-> IntOf(2)]

\* The component whose log the status of a kind keeps.
C37_LogRole(kind) == IF kind \in {"IPerf", "RDMABandwidth"} THEN "client" ELSE "master"

\* C37: for every kind, the raw log in status is the log of a pod whose
\* component is the client (master) role, and an event of a pod of another
\* component (a server or a worker), Succeeded included, leaves the log as
\* it was.
C37_LogOnlyFromClient ==
    [][calc.fn = "pod_modified" =>
          /\ calc'.out.status.log # ""
                => Component(calc'.out.status.log) = C37_LogRole(calc.arg[1])
          /\ (calc'.out.last[2] # "" /\ Component(calc'.out.last[2]) # C37_LogRole(calc.arg[1]))
                => calc'.out.status.log = calc.out.status.log]_vars

\* C37 for the kinds whose pod_modified tests the component before it takes
\* the log: RDMA and MPI ping-pong.
C37_LogOnlyFromClientTested ==
    (calc.fn = "pod_modified" /\ calc.arg[1] \in {"RDMABandwidth", "MPIPingPong"}
       /\ calc.out.status.log # "")
    => Component(calc.out.status.log) = C37_LogRole(calc.arg[1])

\* A server pod has succeeded after the client's log was captured, and the
\* captured log is still the client's.
C37_Witness ==
    /\ calc.fn = "pod_modified"
    /\ calc.arg[1] = "RDMABandwidth"
    /\ calc.out.last = <<"MODIFIED", "server", "Succeeded">>
    /\ calc.out.pods["client"] = "Succeeded"
    /\ calc.out.status.log = "client"

\* A DELETED event of a job or of a pod of a benchmark is dropped: its
\* handler goes no further than the test of the type, so it never holds a
\* status to save, in any phase of the benchmark.
C38_DeletedEventDropped ==
    \A b \in Benchmarks :
        /\ jobH[b].pc # "idle" => jobH[b].type # "DELETED"
        /\ podH[b].pc # "idle" => podH[b].type # "DELETED"

\* C38: a DELETED event of a job of a benchmark never changes the status of
\* the benchmark: whenever its handler ends, in any phase, the stored status
\* is as it was.
C38_DeletedKeepsStatus ==
    [][\A b \in Benchmarks :
          (jobH[b].type = "DELETED" /\ jobH[b].pc = "save" /\ jobH'[b] # jobH[b])
             => obj'[b].status = obj[b].status]_vars

\* The DELETED event of the job that the Summarising teardown has deleted is
\* with its handler, past the test of the type, about to save.
C38_Witness ==
    \E b \in Benchmarks :
        /\ jobH[b].type = "DELETED" /\ jobH[b].pc = "save"
        /\ obj[b].state = "present"
        /\ obj[b].status.phase = "Summarising"

\* The DELETED event of a pod leaves the status fields of the benchmark as
\* they were, for every kind.
C38_PodDeletedKeepsStatus ==
    [][(calc.fn = "pod_modified" /\ calc'.out.last[1] = "DELETED")
          => calc'.out.status = calc.out.status]_vars

\* C39: once the stored phase of a benchmark has left Unknown, no handler
\* writes Unknown again; an event of a job that reports no phase leaves the
\* phase as it is.
C39_UnknownNeverAgain ==
    [][\A b \in Benchmarks :
          (/\ obj[b].state \in {"present", "deleting"}
           /\ obj'[b].state \in {"present", "deleting"}
           /\ obj[b].status.phase # "Unknown")
          => obj'[b].status.phase # "Unknown"]_vars

\* Preparing is written only over a stored phase of Unknown.
C39_PreparingFromUnknown ==
    [][\A b \in Benchmarks :
          (/\ obj[b].state \in {"present", "deleting"}
           /\ obj'[b].status.phase = "Preparing"
           /\ obj[b].status.phase # "Preparing")
          => obj[b].status.phase = "Unknown"]_vars

\* The event of a job that reports no phase is with its handler while the
\* stored phase is Preparing.
C39_Witness ==
    \E b \in Benchmarks :
        /\ jobH[b].pc = "save" /\ jobH[b].type = "MODIFIED" /\ jobH[b].phase = "Unknown"
        /\ jobH[b].rv = obj[b].rv
        /\ obj[b].state = "present"
        /\ obj[b].status.phase = "Preparing"

\* The create handler of the set has returned and every benchmark it applied
\* is in a terminal phase.
C40_AllChildrenTerminal ==
    /\ bset.state = "present"
    /\ sethandled.created
    /\ \A i \in 1..Len(kids) : obj[kids[i].name].status.phase \in TerminalPhases

C40_Finished == bset.status.finishedAt # 0

\* C40: under fairness, a set whose children all come to stay in a terminal
\* phase eventually has finishedAt set.
C40_EventuallyFinished == <>[]C40_AllChildrenTerminal => <>C40_Finished

\* The same for a set whose count is the number of benchmarks it applies.
C40_Counted ==
    bset.state = "present"
    => get_count(bset.spec.permutations) = Len(get_permutations(bset.spec.permutations))

C40_EventuallyFinishedWhenCounted ==
    <>[](C40_AllChildrenTerminal /\ C40_Counted) => <>C40_Finished

\* Every child of the set is terminal and registered, the tally has run, and
\* finishedAt is not set.
C40_Witness ==
    /\ C40_AllChildrenTerminal
    /\ Len(kids) = 2
    /\ DOMAIN bset.status.completed = {kids[1].name, kids[2].name}
    /\ sethandled.completed = bset.status.completed
    /\ seth.kind = "idle"
    /\ ~C40_Finished

====
